---- MODULE Spec2Model ----
(***************************************************************************)
(* x402 payment verification / settlement: the seller middleware, the      *)
(* facilitator dispatcher, the three scheme handlers and the chain state   *)
(* they read and change.                                                   *)
(*                                                                         *)
(* Value encodings                                                         *)
(*   - a JSON string field is a TLA+ string; "" stands for every falsy     *)
(*     value of the field (absent, null, empty string);                    *)
(*   - an amount field is a record [k, n]: k = "num" is the decimal string *)
(*     of n (truthy, "0" included), k = "absent" a falsy value, k = "bad"  *)
(*     a string BigInt() cannot parse (BigInt throws);                     *)
(*   - an address is a string; Lower is toLowerCase on the addresses used. *)
(***************************************************************************)
EXTENDS Integers, Sequences, FiniteSets, TLC

VARIABLES
    vin,        \* SpecVerify, SpecSettle: the handler call's input (method, body, chain)
    vout,       \* SpecVerify: the verify call's result, or NoResult;
                \* SpecSettle: the results of the settle calls made so far
    world,      \* chain id -> chain record (the two Conflux eSpace networks)
    clock,      \* wall clock / block time, seconds
    env,        \* the seller's configuration (env.demoKey)
    mreq,       \* middleware: gated request -> its handler's state and outcome
    issued,     \* middleware: the 402 challenges sent so far
    freq,       \* facilitator: HTTP request -> its handleRequest state and answer
    fsrv,       \* facilitator process: up, providerCache, walletCache
    store,      \* rate limiter: key -> [count, resetAt]
    rlog,       \* rate limiter: the requests handled so far, with their outcome
    nowMs,      \* rate limiter: Date.now(), milliseconds
    receiver,   \* X402PaymentReceiver: owner, treasury
    esc,        \* X402EscrowReceiver: owner, treasury, escrows
    ledger,     \* the CFX and token balances and allowances of the accounts
    lastCall,   \* the last contract call and how it ended
    invoices,   \* table x402_invoices: invoice id -> row
    dbNow,      \* the database's NOW(), seconds
    dbLast,     \* the last statement of the invoice service and how it ended
    payments,   \* table x402_payments: the rows inserted so far
    rreq        \* gated route handlers: request -> its state and response

verifyVars == <<vin, vout>>
chainVars == <<world, clock>>
mwVars == <<env, mreq, issued>>
facVars == <<freq, fsrv>>
rateVars == <<store, rlog, nowMs>>
solVars == <<receiver, esc, ledger, lastCall>>
invoiceVars == <<invoices, dbNow, dbLast>>
routeVars == <<payments, rreq>>
appVars == <<invoices, dbNow, dbLast, payments, rreq>>
vars == <<vin, vout, world, clock, env, mreq, issued, freq, fsrv,
          store, rlog, nowMs, receiver, esc, ledger, lastCall,
          invoices, dbNow, dbLast, payments, rreq>>

----------------------------------------------------------------------------
(* Values *)

Num(n) == [k |-> "num", n |-> n]
Absent == [k |-> "absent", n |-> 0]
Bad == [k |-> "bad", n |-> 0]

\* JavaScript truthiness of an amount field (a non-empty string is truthy)
Truthy(a) == a.k # "absent"

\* String.prototype.toLowerCase on the addresses of the model
Lower(s) ==
    CASE s = "0xA" -> "0xa"
      [] s = "0xB" -> "0xb"
      [] s = "0xT" -> "0xt"
      [] OTHER -> s

TestnetChainId == 71
MainnetChainId == 1030
TestnetCaip2 == "eip155:71"
MainnetCaip2 == "eip155:1030"

Treasury == "0xt"
PaymentContract == "0xpc"
ZeroAddress == "0x0"

\* Token configurations (seller NETWORKS table), price as a parameter
TokenCFX(price) ==
    [symbol |-> "CFX", address |-> ZeroAddress, paymentMethod |-> "native",
     pricePerQuery |-> price, eip712Name |-> "", eip712Version |-> ""]
TokenUSDT(price) ==
    [symbol |-> "USDT", address |-> "0xusdt", paymentMethod |-> "erc20",
     pricePerQuery |-> price, eip712Name |-> "", eip712Version |-> ""]
TokenUSDT0(price) ==
    [symbol |-> "USDT0", address |-> "0xusdt0", paymentMethod |-> "eip3009",
     pricePerQuery |-> price, eip712Name |-> "USDT0", eip712Version |-> "1"]

\* The scheme-tagged inner payload of a proof, with every field of the three
\* variants; a field a proof does not carry is falsy (hasAuth: the
\* authorization object is present).
NoSignature == [ok |-> FALSE, signer |-> "", digest |-> <<>>]
NoAuthorization ==
    [from |-> "", to |-> "", value |-> 0, validAfter |-> 0, validBefore |-> 0, nonce |-> ""]
EmptyPayload ==
    [txHash |-> "", from |-> "", amount |-> Absent, invoiceId |-> "", approveTxHash |-> "",
     hasAuth |-> FALSE, signature |-> NoSignature, authorization |-> NoAuthorization]
NativePayload(h, f, a) == [EmptyPayload EXCEPT !.txHash = h, !.from = f, !.amount = a]
Erc20Payload(f, a, inv, ah) ==
    [EmptyPayload EXCEPT !.from = f, !.amount = a, !.invoiceId = inv, !.approveTxHash = ah]
Eip3009Payload(sig, auth) ==
    [EmptyPayload EXCEPT !.hasAuth = TRUE, !.signature = sig, !.authorization = auth]

NoResult == [valid |-> FALSE, reason |-> "(pending)", reads |-> <<>>]
Valid(reads) == [valid |-> TRUE, reason |-> "", reads |-> reads]
Invalid(reason, reads) == [valid |-> FALSE, reason |-> reason, reads |-> reads]

----------------------------------------------------------------------------
(* Chain view read by the verify handlers.                                 *)
(*   receipt[h] = [found, status], tx[h] = [found, value, from, to],       *)
(*   allowance[<<token, owner, spender>>], balance[<<token, owner>>],      *)
(*   now (wall clock, seconds),                                            *)
(*   failAt = i > 0: the i-th chain read of the call throws (RPC error).   *)

ReceiptOf(chain, h) ==
    IF h \in DOMAIN chain.receipt THEN chain.receipt[h]
    ELSE [found |-> FALSE, status |-> 0]
TxOf(chain, h) ==
    IF h \in DOMAIN chain.tx THEN chain.tx[h]
    ELSE [found |-> FALSE, value |-> 0, from |-> "", to |-> ""]
AllowanceOf(chain, token, owner, spender) ==
    IF <<token, Lower(owner), Lower(spender)>> \in DOMAIN chain.allowance
    THEN chain.allowance[<<token, Lower(owner), Lower(spender)>>] ELSE 0
BalanceOf(chain, token, owner) ==
    IF <<token, Lower(owner)>> \in DOMAIN chain.balance
    THEN chain.balance[<<token, Lower(owner)>>] ELSE 0

\* the i-th read of a call throws
Throws(chain, i) == chain.failAt = i

RpcError == "rpc error"
BigIntError == "Cannot convert to a BigInt"
TypeError == "Cannot destructure property of undefined"

----------------------------------------------------------------------------
(* verifyNative: facilitator/src/handlers/erc20.ts *)

verifyNative_NoVersionGate(body, chain) ==
    LET inner == body.payload.payload
        receipt == ReceiptOf(chain, inner.txHash)
        tx == TxOf(chain, inner.txHash)
        r1 == <<"getTransactionReceipt">>
        r2 == <<"getTransactionReceipt", "getTransaction">>
    IN  IF inner.txHash = "" THEN Invalid("Missing txHash", <<>>)
        ELSE IF Throws(chain, 1) THEN Invalid(RpcError, r1)
        ELSE IF ~receipt.found \/ receipt.status # 1 THEN Invalid("Transaction failed", r1)
        ELSE IF Throws(chain, 2) \/ ~tx.found THEN Invalid(RpcError, r2)
        ELSE IF body.payload.x402Version # 2 THEN Invalid("Unsupported x402 version", r2)
        ELSE Valid(r2)

verifyNative_CaseSensitiveSender(body, chain) ==
    LET inner == body.payload.payload
        receipt == ReceiptOf(chain, inner.txHash)
        tx == TxOf(chain, inner.txHash)
        r1 == <<"getTransactionReceipt">>
        r2 == <<"getTransactionReceipt", "getTransaction">>
    IN  IF body.payload.x402Version # 2 THEN Invalid("Unsupported x402 version", <<>>)
        ELSE IF inner.txHash = "" THEN Invalid("Missing txHash", <<>>)
        ELSE IF Throws(chain, 1) THEN Invalid(RpcError, r1)
        ELSE IF ~receipt.found \/ receipt.status # 1 THEN Invalid("Transaction failed", r1)
        ELSE IF Throws(chain, 2) \/ ~tx.found THEN Invalid(RpcError, r2)
        ELSE IF inner.amount.k = "bad" THEN Invalid(BigIntError, r2)
        ELSE IF tx.value < (IF Truthy(inner.amount) THEN inner.amount.n
                            ELSE body.token.pricePerQuery)
             THEN Invalid("Insufficient CFX amount", r2)
        ELSE IF inner.from # "" /\ tx.from # inner.from THEN Invalid("Sender mismatch", r2)
        ELSE Valid(r2)

verifyNative_SenderBeforeValue(body, chain) ==
    LET p == body.payload
        txHash == p.payload.txHash
        from == p.payload.from
        amount == p.payload.amount
        receipt == ReceiptOf(chain, txHash)
        tx == TxOf(chain, txHash)
        r1 == <<"getTransactionReceipt">>
        r2 == <<"getTransactionReceipt", "getTransaction">>
    IN  IF p.x402Version # 2 THEN Invalid("Unsupported x402 version", <<>>)
        ELSE IF ~p.hasPayload THEN Invalid(TypeError, <<>>)
        ELSE IF txHash = "" THEN Invalid("Missing txHash", <<>>)
        ELSE IF Throws(chain, 1) THEN Invalid(RpcError, r1)
        ELSE IF ~receipt.found THEN Invalid("Transaction not found", r1)
        ELSE IF receipt.status # 1 THEN Invalid("Transaction failed", r1)
        ELSE IF Throws(chain, 2) THEN Invalid(RpcError, r2)
        ELSE IF ~tx.found THEN Invalid("Transaction data not found", r2)
        ELSE IF from # "" /\ Lower(tx.from) # Lower(from)
             THEN Invalid("Sender mismatch", r2)
        ELSE IF Truthy(amount) /\ amount.k = "bad" THEN Invalid(BigIntError, r2)
        ELSE IF tx.value < (IF Truthy(amount) THEN amount.n ELSE body.token.pricePerQuery)
             THEN Invalid("Insufficient CFX amount", r2)
        ELSE Valid(r2)

verifyNative(body, chain) ==
    LET p == body.payload
        txHash == p.payload.txHash
        from == p.payload.from
        amount == p.payload.amount
        receipt == ReceiptOf(chain, txHash)
        tx == TxOf(chain, txHash)
        r1 == <<"getTransactionReceipt">>
        r2 == <<"getTransactionReceipt", "getTransaction">>
    IN  IF p.x402Version # 2 THEN Invalid("Unsupported x402 version", <<>>)
        ELSE IF ~p.hasPayload THEN Invalid(TypeError, <<>>)
        ELSE IF txHash = "" THEN Invalid("Missing txHash", <<>>)
        ELSE IF Throws(chain, 1) THEN Invalid(RpcError, r1)
        ELSE IF ~receipt.found THEN Invalid("Transaction not found", r1)
        ELSE IF receipt.status # 1 THEN Invalid("Transaction failed", r1)
        ELSE IF Throws(chain, 2) THEN Invalid(RpcError, r2)
        ELSE IF ~tx.found THEN Invalid("Transaction data not found", r2)
        ELSE IF Truthy(amount) /\ amount.k = "bad" THEN Invalid(BigIntError, r2)
        ELSE IF tx.value < (IF Truthy(amount) THEN amount.n ELSE body.token.pricePerQuery)
             THEN Invalid("Insufficient CFX amount", r2)
        ELSE IF from # "" /\ Lower(tx.from) # Lower(from)
             THEN Invalid("Sender mismatch", r2)
        ELSE Valid(r2)


----------------------------------------------------------------------------
(* verifyErc20: facilitator/src/handlers/erc20.ts *)

verifyErc20_NoBalanceCheck(body, chain) ==
    LET inner == body.payload.payload
        rA == IF inner.approveTxHash # "" THEN <<"getTransactionReceipt">> ELSE <<>>
        receipt == ReceiptOf(chain, inner.approveTxHash)
        rB == Append(rA, "allowance")
    IN  IF body.payload.x402Version # 2 THEN Invalid("Unsupported x402 version", <<>>)
        ELSE IF ~body.payload.hasPayload THEN Invalid(TypeError, <<>>)
        ELSE IF inner.from = "" \/ inner.amount.k # "num"
             THEN Invalid("Missing from or amount", <<>>)
        ELSE IF inner.approveTxHash # ""
                /\ (Throws(chain, 1) \/ ~receipt.found \/ receipt.status # 1)
             THEN Invalid("Approve transaction not confirmed", rA)
        ELSE IF body.paymentContract = "" \/ chain.failAt > 0
             THEN Invalid("Payment contract not configured", rA)
        ELSE IF AllowanceOf(chain, body.token.address, inner.from, body.paymentContract)
                  < inner.amount.n
             THEN Invalid("Insufficient allowance", rB)
        ELSE IF inner.amount.n < body.token.pricePerQuery
             THEN Invalid("Insufficient amount", rB)
        ELSE Valid(rB)

verifyErc20(body, chain) ==
    LET p == body.payload
        from == p.payload.from
        amount == p.payload.amount
        approveTxHash == p.payload.approveTxHash
        spender == body.paymentContract
        \* the receipt lookup is issued only when an approve hash is supplied
        k == IF approveTxHash # "" THEN 1 ELSE 0
        rA == IF approveTxHash # "" THEN <<"getTransactionReceipt">> ELSE <<>>
        receipt == ReceiptOf(chain, approveTxHash)
        rB == Append(rA, "allowance")
        rC == Append(rB, "balanceOf")
    IN  IF p.x402Version # 2 THEN Invalid("Unsupported x402 version", <<>>)
        ELSE IF ~p.hasPayload THEN Invalid(TypeError, <<>>)
        ELSE IF from = "" \/ ~Truthy(amount) THEN Invalid("Missing from or amount", <<>>)
        ELSE IF approveTxHash # "" /\ Throws(chain, 1) THEN Invalid(RpcError, rA)
        ELSE IF approveTxHash # "" /\ (~receipt.found \/ receipt.status # 1)
             THEN Invalid("Approve transaction not confirmed", rA)
        ELSE IF spender = "" THEN Invalid("Payment contract not configured", rA)
        ELSE IF Throws(chain, k + 1) THEN Invalid(RpcError, rB)
        ELSE IF amount.k = "bad" THEN Invalid(BigIntError, rB)
        ELSE IF AllowanceOf(chain, body.token.address, from, spender) < amount.n
             THEN Invalid("Insufficient allowance", rB)
        ELSE IF Throws(chain, k + 2) THEN Invalid(RpcError, rC)
        ELSE IF BalanceOf(chain, body.token.address, from) < amount.n THEN Invalid("Insufficient balance", rC)
        ELSE IF amount.n < body.token.pricePerQuery THEN Invalid("Insufficient amount", rC)
        ELSE Valid(rC)

----------------------------------------------------------------------------
(* verifyEip3009: facilitator/src/handlers/eip3009.ts *)

Digest_WithoutNonce(domain, message) ==
    [name |-> domain.name, version |-> domain.version, chainId |-> domain.chainId,
     verifyingContract |-> Lower(domain.verifyingContract),
     from |-> Lower(message.from), to |-> Lower(message.to), value |-> message.value,
     validAfter |-> message.validAfter, validBefore |-> message.validBefore,
     nonce |-> ""]

\* The EIP-712 digest of (domain, message): addresses are hashed as 20-byte
\* values, so their letter case does not enter the digest.
Digest(domain, message) ==
    [name |-> domain.name, version |-> domain.version, chainId |-> domain.chainId,
     verifyingContract |-> Lower(domain.verifyingContract),
     from |-> Lower(message.from), to |-> Lower(message.to), value |-> message.value,
     validAfter |-> message.validAfter, validBefore |-> message.validBefore,
     nonce |-> message.nonce]

\* A signature is [ok, signer, digest]: ok = FALSE is a byte string that is no
\* signature (verifyTypedData throws). Recovery over another digest yields an
\* address that is nobody's.
NobodyAddress == "0xdead"
Sign(signer, domain, message) ==
    [ok |-> TRUE, signer |-> signer, digest |-> Digest(domain, message)]
verifyTypedData(domain, message, signature) ==
    IF signature.digest = Digest(domain, message) THEN signature.signer ELSE NobodyAddress

Eip712Domain(token, network) ==
    [name |-> token.eip712Name, version |-> token.eip712Version,
     chainId |-> network.chainId, verifyingContract |-> token.address]

verifyEip3009_NoDestinationCheck(body, chain) ==
    LET p == body.payload
        auth == p.payload.authorization
        domain == Eip712Domain(body.token, body.network)
        recovered == verifyTypedData(domain, auth, p.payload.signature)
        r1 == <<"balanceOf">>
    IN  IF p.x402Version # 2 THEN Invalid("Unsupported x402 version", <<>>)
        ELSE IF p.network # body.network.caip2 THEN Invalid("Wrong network", <<>>)
        ELSE IF ~p.hasPayload \/ ~p.payload.hasAuth THEN Invalid(TypeError, <<>>)
        ELSE IF ~p.payload.signature.ok THEN Invalid("invalid signature bytes", <<>>)
        ELSE IF Lower(recovered) # Lower(auth.from) THEN Invalid("Invalid signature", <<>>)
        ELSE IF Throws(chain, 1) THEN Invalid(RpcError, r1)
        ELSE IF BalanceOf(chain, body.token.address, auth.from) < auth.value
             THEN Invalid("Insufficient balance", r1)
        ELSE IF chain.now < auth.validAfter \/ chain.now > auth.validBefore
             THEN Invalid("Authorization expired or not yet valid", r1)
        ELSE IF auth.value < body.token.pricePerQuery
             THEN Invalid("Insufficient amount", r1)
        ELSE Valid(r1)

verifyEip3009(body, chain) ==
    LET p == body.payload
        auth == p.payload.authorization
        domain == Eip712Domain(body.token, body.network)
        recovered == verifyTypedData(domain, auth, p.payload.signature)
        r1 == <<"balanceOf">>
    IN  IF p.x402Version # 2 THEN Invalid("Unsupported x402 version", <<>>)
        ELSE IF p.network # body.network.caip2 THEN Invalid("Wrong network", <<>>)
        ELSE IF ~p.hasPayload \/ ~p.payload.hasAuth THEN Invalid(TypeError, <<>>)
        ELSE IF ~p.payload.signature.ok THEN Invalid("invalid signature bytes", <<>>)
        ELSE IF Lower(recovered) # Lower(auth.from) THEN Invalid("Invalid signature", <<>>)
        ELSE IF Lower(auth.to) # Lower(body.treasury)
             THEN Invalid("Wrong payment destination", <<>>)
        ELSE IF Throws(chain, 1) THEN Invalid(RpcError, r1)
        ELSE IF BalanceOf(chain, body.token.address, auth.from) < auth.value
             THEN Invalid("Insufficient balance", r1)
        ELSE IF chain.now < auth.validAfter \/ chain.now > auth.validBefore
             THEN Invalid("Authorization expired or not yet valid", r1)
        ELSE IF auth.value < body.token.pricePerQuery
             THEN Invalid("Insufficient amount", r1)
        ELSE Valid(r1)

----------------------------------------------------------------------------
(* Chain transactions. A chain record holds, besides what the verify       *)
(* handlers read, chainId, used (the consumed EIP-3009 authorizations,     *)
(* <<token, from, nonce>>) and transfers (the number of transfers made out *)
(* of a buyer's funds). A transaction executes atomically.                 *)

Relayer == "0xrelayer"

Credit(chain, token, who, amount) ==
    [chain EXCEPT !.balance =
        (<<token, Lower(who)>> :> (BalanceOf(chain, token, who) + amount)) @@ @]

\* IERC20.transferFrom of the token: moves amount out of from's balance and
\* out of the allowance from gave the calling contract, or reverts
transferFrom(chain, token, spender, from, to, amount) ==
    IF BalanceOf(chain, token, from) < amount
       \/ AllowanceOf(chain, token, from, spender) < amount
    THEN [ok |-> FALSE, reason |-> "ERC20: transfer amount exceeds balance or allowance",
          chain |-> chain]
    ELSE LET debited == [chain EXCEPT
                 !.balance[<<token, Lower(from)>>] = @ - amount,
                 !.allowance[<<token, Lower(from), Lower(spender)>>] = @ - amount,
                 !.transfers = @ + 1]
         IN  [ok |-> TRUE, reason |-> "", chain |-> Credit(debited, token, to, amount)]

payWithTokenFrom_NoDebit(chain, caller, token, from, amount) ==
    IF AllowanceOf(chain, token, from, PaymentContract) < amount \/ amount = 0
    THEN [ok |-> FALSE, reason |-> "Insufficient allowance", chain |-> chain]
    ELSE [ok |-> TRUE, reason |-> "", chain |-> Credit(chain, token, Treasury, amount)]

\* X402PaymentReceiver.payWithTokenFrom, called by `caller`
payWithTokenFrom(chain, caller, token, from, amount) ==
    IF caller # Relayer THEN [ok |-> FALSE, reason |-> "Not owner", chain |-> chain]
    ELSE IF amount = 0 THEN [ok |-> FALSE, reason |-> "Zero amount", chain |-> chain]
    ELSE IF token = ZeroAddress
         THEN [ok |-> FALSE, reason |-> "Use payNative for CFX", chain |-> chain]
    ELSE IF from = ZeroAddress THEN [ok |-> FALSE, reason |-> "Invalid payer", chain |-> chain]
    ELSE IF AllowanceOf(chain, token, from, PaymentContract) < amount
         THEN [ok |-> FALSE, reason |-> "Insufficient allowance", chain |-> chain]
    ELSE transferFrom(chain, token, PaymentContract, from, Treasury, amount)

\* the EIP-712 domain the EIP-3009 token itself verifies against
TokenDomain(chain, token) ==
    [name |-> "USDT0", version |-> "1", chainId |-> chain.chainId, verifyingContract |-> token]

\* IEIP3009.transferWithAuthorization of the token, at block time `now`
transferWithAuthorization(chain, token, auth, signature, now) ==
    LET revert(why) == [ok |-> FALSE, reason |-> why, chain |-> chain] IN
    IF token # "0xusdt0" THEN revert("execution reverted")
    ELSE IF ~(now > auth.validAfter) THEN revert("authorization is not yet valid")
    ELSE IF ~(now < auth.validBefore) THEN revert("authorization is expired")
    ELSE IF <<token, Lower(auth.from), auth.nonce>> \in chain.used
         THEN revert("authorization is used or canceled")
    ELSE IF ~signature.ok
            \/ Lower(verifyTypedData(TokenDomain(chain, token), auth, signature))
                 # Lower(auth.from)
         THEN revert("invalid signature")
    ELSE IF BalanceOf(chain, token, auth.from) < auth.value
         THEN revert("transfer amount exceeds balance")
    ELSE LET debited == [chain EXCEPT
                 !.balance[<<token, Lower(auth.from)>>] = @ - auth.value,
                 !.used = @ \cup {<<token, Lower(auth.from), auth.nonce>>},
                 !.transfers = @ + 1]
         IN  [ok |-> TRUE, reason |-> "", chain |-> Credit(debited, token, auth.to, auth.value)]

----------------------------------------------------------------------------
(* Settle handlers. Each yields the handler's result and the chain after   *)
(* it; rpcOk = FALSE: the transaction cannot be sent (RPC error, relayer   *)
(* out of gas money), which the handler's catch turns into a failure.      *)

NoSettle == [success |-> FALSE, transaction |-> "", payer |-> "", error |-> "(pending)"]
Success(transaction, payer) ==
    [success |-> TRUE, transaction |-> transaction, payer |-> payer, error |-> ""]
Failure(error) == [success |-> FALSE, transaction |-> "", payer |-> "", error |-> error]

SettleTxHash == "0xsettled"

settleNative_Confirming(body, chain, rpcOk) ==
    IF ~body.payload.hasPayload \/ ~rpcOk
          \/ ~ReceiptOf(chain, body.payload.payload.txHash).found
    THEN [result |-> Failure(TypeError), chain |-> chain]
    ELSE [result |-> Success(body.payload.payload.txHash, body.payload.payload.from),
          chain |-> chain]

\* settleNative sends nothing: rpcOk and the chain do not enter its result
settleNative(body, chain, rpcOk) ==
    IF ~body.payload.hasPayload
    THEN [result |-> Failure(TypeError), chain |-> chain]
    ELSE [result |-> Success(body.payload.payload.txHash, body.payload.payload.from),
          chain |-> chain]

settleErc20(body, chain, rpcOk) ==
    LET inner == body.payload.payload
        call == payWithTokenFrom(chain, Relayer, body.token.address, inner.from,
                                 inner.amount.n)
    IN  IF ~body.payload.hasPayload THEN [result |-> Failure(TypeError), chain |-> chain]
        ELSE IF body.paymentContract = ""
        THEN [result |-> Failure("Payment contract not configured"), chain |-> chain]
        ELSE IF inner.from = "" \/ inner.amount.k # "num"
        THEN [result |-> Failure("invalid argument"), chain |-> chain]
        ELSE IF ~rpcOk THEN [result |-> Failure(RpcError), chain |-> chain]
        ELSE IF call.ok THEN [result |-> Success(SettleTxHash, inner.from), chain |-> call.chain]
        ELSE [result |-> Failure(call.reason), chain |-> chain]

settleEip3009_IgnoreRevert(body, chain, rpcOk, now) ==
    LET inner == body.payload.payload
        auth == inner.authorization
        call == transferWithAuthorization(chain, body.token.address, auth,
                                          inner.signature, now)
    IN  IF ~body.payload.hasPayload \/ ~inner.hasAuth
        THEN [result |-> Failure(TypeError), chain |-> chain]
        ELSE IF ~rpcOk THEN [result |-> Failure(RpcError), chain |-> chain]
        ELSE [result |-> Success(SettleTxHash, auth.from), chain |-> call.chain]

settleEip3009(body, chain, rpcOk, now) ==
    LET inner == body.payload.payload
        auth == inner.authorization
        call == transferWithAuthorization(chain, body.token.address, auth,
                                          inner.signature, now)
    IN  IF ~body.payload.hasPayload \/ ~inner.hasAuth
        THEN [result |-> Failure(TypeError), chain |-> chain]
        ELSE IF ~rpcOk THEN [result |-> Failure(RpcError), chain |-> chain]
        ELSE IF call.ok THEN [result |-> Success(SettleTxHash, auth.from), chain |-> call.chain]
        ELSE [result |-> Failure(call.reason), chain |-> chain]

----------------------------------------------------------------------------
(* Values the variables of a specification hold while it does not use them *)

VerifyIdle == vin = <<>> /\ vout = NoResult
ChainIdle == world = <<>> /\ clock = 0
MwIdle == env = <<>> /\ mreq = <<>> /\ issued = {}
FacIdle == freq = <<>> /\ fsrv = <<>>
RateIdle == store = <<>> /\ rlog = <<>> /\ nowMs = 0
SolIdle == receiver = <<>> /\ esc = <<>> /\ ledger = <<>> /\ lastCall = <<>>
InvoiceIdle == invoices = <<>> /\ dbNow = 0 /\ dbLast = <<>>
RouteIdle == payments = <<>> /\ rreq = <<>>
AppIdle == InvoiceIdle /\ RouteIdle

----------------------------------------------------------------------------
(* SpecVerify: one verify call of a scheme handler on an input drawn from  *)
(* bounded sets of proofs, token prices and chain views.                   *)

Versions == {1, 2}
Prices == {100, 1000}
\* <<scheme, network>> of the proof; the requirements are "exact" on testnet
SchemeNet == {<<"exact", TestnetCaip2>>, <<"other", TestnetCaip2>>, <<"exact", MainnetCaip2>>}
AmountFields == {Absent, Bad, Num(0), Num(999), Num(1000)}
TxValues == {99, 999, 1000}
Receipts == {[found |-> FALSE, status |-> 0], [found |-> TRUE, status |-> 0],
             [found |-> TRUE, status |-> 1]}
NoTx == [found |-> FALSE, value |-> 0, from |-> "", to |-> ""]
Txs == {NoTx} \cup {[found |-> TRUE, value |-> v, from |-> f, to |-> t] :
                      v \in TxValues, f \in {"0xa"}, t \in {PaymentContract, "0xb"}}
MaxFailAt == 2

RequirementsNetwork == [chainId |-> TestnetChainId, caip2 |-> TestnetCaip2]

\* hasPayload: the envelope carries the scheme-tagged inner payload object
Envelope(v, sn, inner) ==
    [x402Version |-> v, scheme |-> sn[1], network |-> sn[2], hasPayload |-> TRUE,
     payload |-> inner]

\* an envelope without the inner payload object
BareEnvelope(v, sn) == [Envelope(v, sn, EmptyPayload) EXCEPT !.hasPayload = FALSE]

Body(payload, token, paymentContract) ==
    [payload |-> payload, token |-> token, network |-> RequirementsNetwork,
     treasury |-> Treasury, paymentContract |-> paymentContract]

ChainView(receipt, tx, allowance, balance, now, failAt) ==
    [receipt |-> receipt, tx |-> tx, allowance |-> allowance, balance |-> balance,
     now |-> now, failAt |-> failAt]

NativeInput(v, sn, h, f, a, price, rc, tx, fa) ==
    [method |-> "native",
     body |-> Body(Envelope(v, sn, NativePayload(h, f, a)),
                   TokenCFX(price), PaymentContract),
     chain |-> ChainView([x \in {"h1"} |-> rc], [x \in {"h1"} |-> tx], <<>>, <<>>, 0, fa)]

\* an approve hash comes with any receipt; without one the receipt is not read
ApproveCases == {<<"", [found |-> FALSE, status |-> 0]>>} \cup {<<"h1", rc>> : rc \in Receipts}
TokenAmounts == {999, 1000}

Erc20Input(v, sn, f, a, ac, price, pc, al, bal, fa) ==
    [method |-> "erc20",
     body |-> Body(Envelope(v, sn, Erc20Payload(f, a, "inv1", ac[1])),
                   TokenUSDT(price), pc),
     chain |-> ChainView([x \in {"h1"} |-> ac[2]], <<>>,
                         [x \in {<<"0xusdt", "0xa", PaymentContract>>} |-> al],
                         [x \in {<<"0xusdt", "0xa">>} |-> bal], 0, fa)]

ValidAfter == 10
ValidBefore == 20
Nows == {ValidAfter - 1, ValidAfter, ValidAfter + 1, ValidBefore, ValidBefore + 1}
AuthFields == {"from", "to", "value", "validAfter", "validBefore", "nonce"}

\* the authorization that was signed, when the presented one was changed in field fld
Tamper(auth, fld) ==
    CASE fld = "from" -> [auth EXCEPT !.from = "0xb"]
      [] fld = "to" -> [auth EXCEPT !.to = "0xc"]
      [] fld = "value" -> [auth EXCEPT !.value = auth.value + 1]
      [] fld = "validAfter" -> [auth EXCEPT !.validAfter = auth.validAfter + 1]
      [] fld = "validBefore" -> [auth EXCEPT !.validBefore = auth.validBefore + 1]
      [] fld = "nonce" -> [auth EXCEPT !.nonce = "n2"]

SigKinds == {"self", "stranger", "malformed", "wrongchain"} \cup AuthFields

SignatureFor(kind, auth, token) ==
    LET domain == Eip712Domain(token, RequirementsNetwork) IN
    CASE kind = "self" -> Sign(Lower(auth.from), domain, auth)
      [] kind = "stranger" -> Sign("0xb", domain, auth)
      [] kind = "malformed" -> [Sign("0xb", domain, auth) EXCEPT !.ok = FALSE]
      [] kind = "wrongchain" ->
            Sign(Lower(auth.from), [domain EXCEPT !.chainId = MainnetChainId], auth)
      [] OTHER -> Sign(Lower(Tamper(auth, kind).from), domain, Tamper(auth, kind))

Authorization(f, t, val) ==
    [from |-> f, to |-> t, value |-> val, validAfter |-> ValidAfter,
     validBefore |-> ValidBefore, nonce |-> "n1"]

Eip3009Input(v, sn, sk, auth, price, bal, now, fa) ==
    [method |-> "eip3009",
     body |-> Body(Envelope(v, sn, Eip3009Payload(SignatureFor(sk, auth, TokenUSDT0(price)),
                                                  auth)),
                   TokenUSDT0(price), PaymentContract),
     chain |-> ChainView(<<>>, <<>>, <<>>, [x \in {<<"0xusdt0", "0xa">>} |-> bal], now, fa)]

InitVerifyNative ==
    \E v \in Versions, sn \in SchemeNet, h \in {"", "h1"}, f \in {"", "0xA", "0xb"},
       a \in AmountFields, price \in Prices, rc \in Receipts, tx \in Txs,
       fa \in 0..MaxFailAt :
        vin = NativeInput(v, sn, h, f, a, price, rc, tx, fa)

InitVerifyErc20 ==
    \E v \in Versions, sn \in SchemeNet, f \in {"", "0xa", "0xA"}, a \in AmountFields,
       ac \in ApproveCases, price \in Prices, pc \in {"", PaymentContract},
       al \in TokenAmounts, bal \in TokenAmounts, fa \in 0..MaxFailAt :
        vin = Erc20Input(v, sn, f, a, ac, price, pc, al, bal, fa)

InitVerifyEip3009 ==
    \E v \in Versions, sn \in SchemeNet, sk \in SigKinds, t \in {"0xt", "0xT", "0xb"},
       val \in {99, 100, 1000}, price \in Prices, bal \in {0, 1000}, now \in Nows,
       fa \in 0..(MaxFailAt - 1) :
        vin = Eip3009Input(v, sn, sk, Authorization("0xA", t, val), price, bal, now, fa)

\* a proof without the inner payload object, presented to each handler
InitVerifyBare ==
    \E m \in {"native", "erc20", "eip3009"}, v \in Versions, sn \in SchemeNet,
       fa \in 0..MaxFailAt :
        vin = [method |-> m,
               body |-> Body(BareEnvelope(v, sn),
                             CASE m = "native" -> TokenCFX(1000)
                               [] m = "erc20" -> TokenUSDT(1000)
                               [] m = "eip3009" -> TokenUSDT0(100),
                             PaymentContract),
               chain |-> ChainView(<<>>, <<>>, <<>>, <<>>, 0, fa)]

InitVerify ==
    /\ InitVerifyNative \/ InitVerifyErc20 \/ InitVerifyEip3009 \/ InitVerifyBare
    /\ vout = NoResult
    /\ ChainIdle /\ MwIdle /\ FacIdle /\ RateIdle /\ SolIdle /\ AppIdle

VerifyNativeCall ==
    /\ vin.method = "native" /\ vout = NoResult
    /\ vout' = verifyNative(vin.body, vin.chain)
    /\ UNCHANGED <<vin, chainVars, mwVars, facVars, rateVars, solVars, appVars>>

VerifyErc20Call ==
    /\ vin.method = "erc20" /\ vout = NoResult
    /\ vout' = verifyErc20(vin.body, vin.chain)
    /\ UNCHANGED <<vin, chainVars, mwVars, facVars, rateVars, solVars, appVars>>

VerifyEip3009Call ==
    /\ vin.method = "eip3009" /\ vout = NoResult
    /\ vout' = verifyEip3009(vin.body, vin.chain)
    /\ UNCHANGED <<vin, chainVars, mwVars, facVars, rateVars, solVars, appVars>>

NextVerify == VerifyNativeCall \/ VerifyErc20Call \/ VerifyEip3009Call

SpecVerify == InitVerify /\ [][NextVerify]_vars

----------------------------------------------------------------------------
(* Properties of one verify call (SpecVerify) *)

VerifyReturned == vout # NoResult
Proof == vin.body.payload
Inner == vin.body.payload.payload

\* the amount actually paid or authorised by the proof of the call
PaidAmount ==
    CASE vin.method = "native" -> TxOf(vin.chain, Inner.txHash).value
      [] vin.method = "erc20" -> Inner.amount.n
      [] vin.method = "eip3009" -> Inner.authorization.value

\* C3: for each of the three schemes, verify returns valid:false whenever the
\* amount actually paid or authorised (native: the value of the transaction,
\* erc20: the payload amount, eip3009: the authorization value) is below the
\* token's pricePerQuery, whatever else the proof carries.
C3_BelowPriceRejected ==
    (VerifyReturned /\ PaidAmount < vin.body.token.pricePerQuery) => ~vout.valid

\* C6: each scheme's verify returns valid:false for a proof whose x402Version
\* is not 2, whose scheme is not "exact", or whose network differs from the
\* network of the requirements it is presented against.
C6_TripletEnforced ==
    (VerifyReturned /\ (Proof.x402Version # 2 \/ Proof.scheme # "exact"
                        \/ Proof.network # vin.body.network.caip2))
        => ~vout.valid

\* C11: for each scheme's verify, a payload whose x402Version is not 2 yields
\* {valid:false, reason:"Unsupported x402 version"} and the call issues no
\* chain read (receipt, transaction, allowance or balance lookup).
C11_VersionRejectedBeforeChainReads ==
    (VerifyReturned /\ Proof.x402Version # 2)
        => vout = Invalid("Unsupported x402 version", <<>>)

\* a native proof of version 1 that names a transaction was rejected without a
\* read, on a chain whose first read would have failed
C11_Witness ==
    /\ VerifyReturned /\ vin.method = "native" /\ Proof.x402Version = 1
    /\ Inner.txHash = "h1" /\ vin.chain.failAt = 1
    /\ vout.reads = <<>>

\* a version-2 native proof with a parsable amount whose receipt and
\* transaction were read: the receipt is successful and the transaction found
NativeProofRead ==
    /\ VerifyReturned /\ vin.method = "native" /\ Proof.x402Version = 2
    /\ Inner.txHash # "" /\ vin.chain.failAt = 0
    /\ ReceiptOf(vin.chain, Inner.txHash) = [found |-> TRUE, status |-> 1]
    /\ TxOf(vin.chain, Inner.txHash).found
    /\ Inner.amount.k # "bad"

\* the amount verifyNative requires: the proof's amount, or the token's
\* price when the proof names none
RequiredAmount ==
    IF Truthy(Inner.amount) THEN Inner.amount.n ELSE vin.body.token.pricePerQuery

SenderMatches ==
    Inner.from = "" \/ Lower(TxOf(vin.chain, Inner.txHash).from) = Lower(Inner.from)

BuyerAllowance ==
    AllowanceOf(vin.chain, vin.body.token.address, Inner.from, vin.body.paymentContract)
BuyerBalance == BalanceOf(vin.chain, vin.body.token.address, Inner.from)

\* C14: verifyErc20 returns valid:false whenever the buyer's allowance to the
\* payment contract is below the payload amount, even if the balance covers
\* it, and whenever the buyer's balance is below the payload amount, even if
\* the allowance covers it.
C14_Erc20NeedsAllowanceAndBalance ==
    (VerifyReturned /\ vin.method = "erc20" /\ Inner.amount.k = "num"
        /\ (BuyerAllowance < Inner.amount.n \/ BuyerBalance < Inner.amount.n))
        => ~vout.valid

\* the allowance covered the amount, the balance did not, and the proof was
\* rejected for the balance
C14_Witness ==
    /\ VerifyReturned /\ vin.method = "erc20" /\ Inner.amount.k = "num"
    /\ BuyerAllowance >= Inner.amount.n /\ BuyerBalance < Inner.amount.n
    /\ ~vout.valid /\ vout.reason = "Insufficient balance"

\* the signature of the proof was made by the holder of `from` over the
\* authorization as it was before field fld was changed
SignedBeforeChange(fld) ==
    Inner.signature = SignatureFor(fld, Inner.authorization, vin.body.token)

\* C15: for every EIP-3009 proof (version 2, on the network of the
\* requirements) whose signature was valid for its authorization, changing
\* any one of from, to, value, validAfter, validBefore or nonce to a different
\* value while keeping the signature makes verifyEip3009 return valid:false
\* with reason "Invalid signature".
C15_ChangedFieldInvalidatesSignature ==
    \A fld \in AuthFields :
        ( /\ VerifyReturned /\ vin.method = "eip3009"
          /\ Proof.x402Version = 2 /\ Proof.network = vin.body.network.caip2
          /\ Proof.hasPayload
          /\ SignedBeforeChange(fld) )
        => vout = Invalid("Invalid signature", <<>>)

\* only the nonce was changed after signing; recipient, balance, time window
\* and amount would all have passed
C15_Witness ==
    /\ VerifyReturned /\ vin.method = "eip3009"
    /\ Proof.x402Version = 2 /\ Proof.network = vin.body.network.caip2
    /\ SignedBeforeChange("nonce")
    /\ Lower(Inner.authorization.to) = Lower(vin.body.treasury)
    /\ BalanceOf(vin.chain, vin.body.token.address, Inner.authorization.from)
            >= Inner.authorization.value
    /\ Inner.authorization.value >= vin.body.token.pricePerQuery
    /\ vin.chain.now = ValidAfter + 1 /\ vin.chain.failAt = 0
    /\ vout = Invalid("Invalid signature", <<>>)

\* the verifyEip3009 call got as far as its time-window check
WindowChecked ==
    /\ VerifyReturned /\ vin.method = "eip3009"
    /\ vout.reads = <<"balanceOf">>
    /\ vout.reason \notin {RpcError, "Insufficient balance"}
WindowPassed == vout.reason # "Authorization expired or not yet valid"

\* C16: the time-window check of verifyEip3009 passes exactly when
\* validAfter <= now < validBefore: inclusive at validAfter, exclusive at
\* validBefore.
C16_WindowInclusiveExclusive ==
    WindowChecked =>
        (WindowPassed <=> (/\ Inner.authorization.validAfter <= vin.chain.now
                           /\ vin.chain.now < Inner.authorization.validBefore))

----------------------------------------------------------------------------
(* Seller configuration: NETWORKS, getNetwork, getDefaultToken *)

NETWORKS ==
    [testnet |->
        [name |-> "testnet", chainId |-> TestnetChainId, caip2 |-> TestnetCaip2,
         tokens |-> [CFX |-> TokenCFX(1000), USDT |-> TokenUSDT(1000)]],
     mainnet |->
        [name |-> "mainnet", chainId |-> MainnetChainId, caip2 |-> MainnetCaip2,
         tokens |-> [CFX |-> TokenCFX(1000), USDT0 |-> TokenUSDT0(100),
                     USDT |-> TokenUSDT(1000)]]]

getNetwork(name) == NETWORKS[name]

getDefaultToken(network) == IF "USDT0" \in DOMAIN network.tokens THEN "USDT0" ELSE "CFX"

ChallengeTimeout == 3600

----------------------------------------------------------------------------
(* Facilitator answers as the middleware's callFacilitator returns them:   *)
(* null (connection error, 30 s timeout, unparsable answer) or the JSON of *)
(* the answer; a JSON answer that is no handler result (401, 400, 404)     *)
(* has neither valid nor success.                                          *)

NullAnswer ==
    [json |-> FALSE, valid |-> FALSE, reason |-> "", success |-> FALSE,
     transaction |-> "", payer |-> "", error |-> ""]
ErrorAnswer == [NullAnswer EXCEPT !.json = TRUE, !.error = "Invalid API key"]
VerifyAnswer(res) == [NullAnswer EXCEPT !.json = TRUE, !.valid = res.valid, !.reason = res.reason]
SettleAnswer(res) ==
    [NullAnswer EXCEPT !.json = TRUE, !.success = res.success,
                       !.transaction = res.transaction, !.payer = res.payer,
                       !.error = res.error]

\* the verify handler the facilitator runs for the route of a payment method
DispatchVerify(method, body, chain) ==
    CASE method = "native" -> verifyNative(body, chain)
      [] method = "erc20" -> verifyErc20(body, chain)
      [] method = "eip3009" -> verifyEip3009(body, chain)

\* the settle handler the facilitator runs for the route of a payment method
DispatchSettle(method, body, chain, rpcOk, now) ==
    CASE method = "native" -> settleNative(body, chain, rpcOk)
      [] method = "erc20" -> settleErc20(body, chain, rpcOk)
      [] method = "eip3009" -> settleEip3009(body, chain, rpcOk, now)

\* what a verify handler reads: the chain of the request, the wall clock, and
\* whether a read fails
View(chain, now, failAt) ==
    [receipt |-> chain.receipt, tx |-> chain.tx, allowance |-> chain.allowance,
     balance |-> chain.balance, now |-> now, failAt |-> failAt]

----------------------------------------------------------------------------
(* x402 middleware: seller/src/middleware/x402.ts *)

Requests == {"r1", "r2"}
NetworkNames == {"testnet", "mainnet"}
QueryTokens == {"", "USDT", "DOGE"}

BuyerAuthorization == Authorization("0xa", Treasury, 100)
\* an authorization of the buyer that pays another account
StrayAuthorization == Authorization("0xa", "0xb", 100)

\* PAYMENT-SIGNATURE header values: none, not base64 JSON, or a proof
ProofTable ==
    [pn |-> Envelope(2, <<"exact", TestnetCaip2>>, NativePayload("h1", "0xa", Absent)),
     pe |-> Envelope(2, <<"exact", TestnetCaip2>>, Erc20Payload("0xa", Num(1000), "inv-r1", "")),
     p3 |-> Envelope(2, <<"exact", MainnetCaip2>>,
                     Eip3009Payload(Sign("0xa", Eip712Domain(TokenUSDT0(100),
                                                              NETWORKS["mainnet"]),
                                         BuyerAuthorization),
                                    BuyerAuthorization)),
     p3x |-> Envelope(2, <<"exact", MainnetCaip2>>,
                      Eip3009Payload(Sign("0xa", Eip712Domain(TokenUSDT0(100),
                                                               NETWORKS["mainnet"]),
                                          StrayAuthorization),
                                     StrayAuthorization))]
Headers == {"", "garbage"} \cup DOMAIN ProofTable

\* JSON.parse(Buffer.from(header, 'base64').toString()) succeeds
Decodable(header) == header \in DOMAIN ProofTable

NewRequest ==
    [pc |-> "new", networkName |-> "", qtoken |-> "", demo |-> FALSE, header |-> "",
     status |-> 0, message |-> "", next |-> FALSE, x402 |-> NoSettle,
     verifyCalls |-> 0, settleCalls |-> 0, verifyValid |-> FALSE,
     settleSuccess |-> FALSE, demoSuccess |-> FALSE, signed |-> FALSE,
     unreachable |-> FALSE, moved |-> FALSE]

TokenOfRequest(q) ==
    LET network == getNetwork(q.networkName)
        symbol == IF q.qtoken # "" THEN q.qtoken ELSE getDefaultToken(network)
    IN  network.tokens[symbol]

\* the body verifyAndSettle sends to both facilitator endpoints
FacilitatorBody(q) ==
    LET network == getNetwork(q.networkName) IN
    [payload |-> ProofTable[q.header], token |-> TokenOfRequest(q),
     network |-> [chainId |-> network.chainId, caip2 |-> network.caip2],
     treasury |-> Treasury, paymentContract |-> PaymentContract]

\* c.json(body, status): the handler returns without calling next()
Respond(q, status, message) ==
    [q EXCEPT !.pc = "done", !.status = status, !.message = message]

\* c.set('x402', ...) and await next(): the downstream handler runs
AttachAndNext(q, settlement) ==
    [q EXCEPT !.pc = "done", !.status = 200, !.x402 = settlement, !.next = TRUE]

DemoEligible_AnyNetwork(isDemo, networkName, demoKey, token) ==
    /\ isDemo
    /\ demoKey # ""
    /\ token.paymentMethod \in {"native", "erc20"}

\* the demo condition of x402()
DemoEligible(isDemo, networkName, demoKey, token) ==
    /\ isDemo
    /\ networkName = "testnet"
    /\ demoKey # ""
    /\ token.paymentMethod \in {"native", "erc20"}

CallVerify(q) == [q EXCEPT !.pc = "verify", !.verifyCalls = @ + 1]
CallSettle(q) == [q EXCEPT !.pc = "settle", !.settleCalls = @ + 1]

AfterVerify_Retry(q, answer) ==
    IF ~answer.json \/ ~answer.valid THEN CallVerify(q) ELSE CallSettle(q)

AfterVerify_AwaitForever(q, answer) ==
    IF ~answer.json THEN [q EXCEPT !.pc = "pending"]
    ELSE IF ~answer.valid
    THEN Respond(q, 402, IF answer.reason # "" THEN answer.reason ELSE "Verification failed")
    ELSE CallSettle(q)

\* verifyAndSettle after the verify answer
AfterVerify(q, answer) ==
    IF ~answer.json \/ ~answer.valid
    THEN Respond(q, 402, IF answer.json /\ answer.reason # "" THEN answer.reason
                         ELSE "Verification failed")
    ELSE CallSettle(q)

AfterSettle_AnyAnswer(q, answer) ==
    IF ~answer.json
    THEN Respond(q, 402, "Settlement failed")
    ELSE AttachAndNext(q, Success(answer.transaction, answer.payer))

\* verifyAndSettle after the settle answer, and x402() on its result
AfterSettle(q, answer) ==
    IF ~answer.json \/ ~answer.success
    THEN Respond(q, 402, IF answer.json /\ answer.error # "" THEN answer.error
                         ELSE "Settlement failed")
    ELSE AttachAndNext(q, Success(answer.transaction, answer.payer))

\* x402() after demoPayNative / demoPayErc20
AfterDemo(q, demoResult) ==
    IF demoResult.success THEN AttachAndNext(q, demoResult)
    ELSE Respond(q, 500, "Demo payment failed")

\* crypto.randomUUID(): an identifier no other challenge carries
InvoiceIdOf == [r1 |-> "inv-r1", r2 |-> "inv-r2"]
NonceOf == [r1 |-> "nonce-r1", r2 |-> "nonce-r2"]

Challenge_NoTimeout(r, q, now) ==
    [invoiceId |-> InvoiceIdOf[r], nonce |-> NonceOf[r],
     expiry |-> now, endpoint |-> "/data/premium",
     network |-> q.networkName, amount |-> TokenOfRequest(q).pricePerQuery]

\* send402: the challenge of a 402 answer; crypto.randomUUID() gives every
\* request an invoice id and a nonce of its own
Challenge(r, q, now) ==
    [invoiceId |-> InvoiceIdOf[r], nonce |-> NonceOf[r],
     expiry |-> now + ChallengeTimeout, endpoint |-> "/data/premium",
     network |-> q.networkName, amount |-> TokenOfRequest(q).pricePerQuery]

\* x402() up to its first await
MwReceive(r) ==
    /\ mreq[r].pc = "new"
    /\ \E networkName \in NetworkNames, qtoken \in QueryTokens, demo \in BOOLEAN,
          header \in Headers :
        LET network == getNetwork(networkName)
            symbol == IF qtoken # "" THEN qtoken ELSE getDefaultToken(network)
            q == [mreq[r] EXCEPT !.networkName = networkName, !.qtoken = qtoken,
                                 !.demo = demo, !.header = header]
        IN  IF symbol \notin DOMAIN network.tokens
            THEN /\ mreq' = [mreq EXCEPT ![r] = Respond(q, 400, "Unsupported token")]
                 /\ UNCHANGED issued
            ELSE IF header = ""
            THEN IF DemoEligible(demo, networkName, env.demoKey, network.tokens[symbol])
                 THEN /\ mreq' = [mreq EXCEPT ![r] = [q EXCEPT !.pc = "demo"]]
                      /\ UNCHANGED issued
                 ELSE /\ mreq' = [mreq EXCEPT ![r] = Respond(q, 402, "Payment required")]
                      /\ issued' = issued \cup {Challenge(r, q, clock)}
            ELSE IF ~Decodable(header)
            THEN /\ mreq' = [mreq EXCEPT ![r] =
                                Respond(q, 402, "Invalid PAYMENT-SIGNATURE header")]
                 /\ UNCHANGED issued
            ELSE /\ mreq' = [mreq EXCEPT ![r] = CallVerify(q)]
                 /\ UNCHANGED issued
    /\ UNCHANGED <<verifyVars, chainVars, env, facVars, rateVars, solVars, appVars>>

\* the facilitator's verify answer (or none) reaches verifyAndSettle
MwVerifyReturn(r) ==
    /\ mreq[r].pc = "verify"
    /\ LET q == mreq[r]
           body == FacilitatorBody(q)
           chain == world[body.network.chainId]
       IN  \E failAt \in 0..1, kind \in {"null", "error", "answer"} :
            LET answer ==
                    CASE kind = "null" -> NullAnswer
                      [] kind = "error" -> ErrorAnswer
                      [] kind = "answer" ->
                            VerifyAnswer(DispatchVerify(body.token.paymentMethod, body,
                                                        View(chain, clock, failAt)))
            IN  mreq' = [mreq EXCEPT ![r] =
                            [AfterVerify(q, answer) EXCEPT
                                !.verifyValid = answer.json /\ answer.valid,
                                !.unreachable = ~answer.json]]
    /\ UNCHANGED <<verifyVars, chainVars, env, issued, facVars, rateVars, solVars, appVars>>

\* the facilitator's settle handler runs (or not) and its answer (or none)
\* reaches verifyAndSettle; "late": the handler ran, the answer came too late
MwSettleReturn(r) ==
    /\ mreq[r].pc = "settle"
    /\ LET q == mreq[r]
           body == FacilitatorBody(q)
           cid == body.network.chainId
       IN  \E rpcOk \in BOOLEAN, kind \in {"null", "error", "answer", "late"} :
            LET ran == DispatchSettle(body.token.paymentMethod, body, world[cid],
                                      rpcOk, clock)
                answer ==
                    CASE kind \in {"null", "late"} -> NullAnswer
                      [] kind = "error" -> ErrorAnswer
                      [] kind = "answer" -> SettleAnswer(ran.result)
            IN  /\ mreq' = [mreq EXCEPT ![r] =
                            [AfterSettle(q, answer) EXCEPT
                                !.settleSuccess = answer.json /\ answer.success,
                                !.unreachable = ~answer.json,
                                !.moved = kind \in {"answer", "late"}
                                          /\ ran.chain # world[cid]]]
                /\ world' = IF kind \in {"answer", "late"}
                            THEN [world EXCEPT ![cid] = ran.chain] ELSE world
    /\ UNCHANGED <<verifyVars, clock, env, issued, facVars, rateVars, solVars, appVars>>

DemoWallet == "0xdemo"

\* demoPayNative / demoPayErc20: the middleware pays the treasury from its
\* own wallet; "down": the RPC fails before anything is signed, "reverted":
\* the signed transaction fails (no funds, revert)
MwDemoReturn(r) ==
    /\ mreq[r].pc = "demo"
    /\ LET q == mreq[r]
           token == TokenOfRequest(q)
           cid == getNetwork(q.networkName).chainId
       IN  \E outcome \in {"down", "reverted", "paid"} :
            LET demoResult == IF outcome = "paid" THEN Success("0xdemotx", DemoWallet)
                              ELSE Failure(RpcError)
            IN  /\ mreq' = [mreq EXCEPT ![r] =
                            [AfterDemo(q, demoResult) EXCEPT
                                !.signed = (outcome # "down"),
                                !.demoSuccess = demoResult.success]]
                /\ world' = IF outcome = "paid"
                            THEN [world EXCEPT ![cid] =
                                    Credit(@, token.address, Treasury, token.pricePerQuery)]
                            ELSE world
    /\ UNCHANGED <<verifyVars, clock, env, issued, facVars, rateVars, solVars, appVars>>

\* the buyer's own payNative transaction h is mined
BuyerPayNative(cid, h) ==
    /\ ~world[cid].receipt[h].found
    /\ world' = [world EXCEPT
            ![cid] = Credit([@ EXCEPT
                        !.receipt[h] = [found |-> TRUE, status |-> 1],
                        !.tx[h] = [found |-> TRUE, value |-> 1000, from |-> "0xa",
                                   to |-> PaymentContract],
                        !.transfers = @ + 1],
                     ZeroAddress, Treasury, 1000)]
    /\ UNCHANGED <<verifyVars, clock, mwVars, facVars, rateVars, solVars, appVars>>

MaxClock == 21
Tick ==
    /\ clock < MaxClock
    /\ clock' = clock + 1
    /\ UNCHANGED <<verifyVars, world, mwVars, facVars, rateVars, solVars, appVars>>

InitChain(cid, token, allowance, balance) ==
    [chainId |-> cid,
     receipt |-> [h \in {"h1"} |-> [found |-> FALSE, status |-> 0]],
     tx |-> [h \in {"h1"} |-> NoTx],
     allowance |-> [x \in {<<"0xusdt", "0xa", PaymentContract>>} |-> allowance],
     balance |-> [x \in {<<"0xusdt", "0xa">>, <<token, "0xa">>} |->
                    IF x[1] = "0xusdt" THEN balance ELSE 2000],
     used |-> {}, transfers |-> 0]

Init ==
    /\ VerifyIdle
    /\ FacIdle /\ RateIdle /\ SolIdle /\ AppIdle
    /\ world = (TestnetChainId :> InitChain(TestnetChainId, "0xusdt", 1000, 2000))
                @@ (MainnetChainId :> InitChain(MainnetChainId, "0xusdt0", 1000, 2000))
    /\ clock = ValidBefore - 1
    /\ env \in {[demoKey |-> k] : k \in {"", "0xdemokey"}}
    /\ mreq = [r \in Requests |-> NewRequest]
    /\ issued = {}

Next ==
    \/ \E r \in Requests : MwReceive(r)
    \/ \E r \in Requests : MwVerifyReturn(r)
    \/ \E r \in Requests : MwSettleReturn(r)
    \/ \E r \in Requests : MwDemoReturn(r)
    \/ BuyerPayNative(TestnetChainId, "h1")
    \/ Tick

Spec == Init /\ [][Next]_vars

----------------------------------------------------------------------------
(* Properties of the middleware (Spec) *)

Paid(r) == mreq[r].next /\ mreq[r].header # ""

\* C1: the downstream handler is invoked and a SettlementResult with
\* success:true is attached only if, for that request, the facilitator verify
\* call returned valid:true and the following settle call returned
\* success:true (or the demo payment returned success:true); a settle that
\* fails, returns nothing or times out ends the request without the
\* downstream handler.
C1_PaidOnlyAfterVerifyAndSettle ==
    \A r \in Requests :
        /\ (mreq[r].next \/ mreq[r].x402.success) =>
                \/ mreq[r].verifyValid /\ mreq[r].settleSuccess
                \/ mreq[r].demoSuccess
        /\ (mreq[r].pc = "done" /\ mreq[r].settleCalls > 0 /\ ~mreq[r].settleSuccess) =>
                ~mreq[r].next /\ ~mreq[r].x402.success /\ mreq[r].status = 402

\* one request was paid after verify and settle, another ended 402 because its
\* settle failed after a valid verify
C1_Witness ==
    \E r, t \in Requests :
        /\ mreq[r].next /\ mreq[r].x402.success
        /\ mreq[r].verifyValid /\ mreq[r].settleSuccess
        /\ mreq[t].pc = "done" /\ mreq[t].verifyValid /\ ~mreq[t].settleSuccess
        /\ mreq[t].settleCalls = 1

\* C2: for every request that carries a PAYMENT-SIGNATURE header the
\* middleware makes at most one verify call and at most one settle call, the
\* settle call only after the verify call of the same request returned
\* valid:true, and no call is repeated; a request without the header makes
\* no call.
C2_AtMostOneVerifyOneSettle ==
    \A r \in Requests :
        /\ mreq[r].verifyCalls <= 1
        /\ mreq[r].settleCalls <= 1
        /\ mreq[r].settleCalls = 1 => (mreq[r].verifyCalls = 1 /\ mreq[r].verifyValid)
        /\ mreq[r].header = "" => (mreq[r].verifyCalls = 0 /\ mreq[r].settleCalls = 0)

\* a request that made both calls and ended, and one whose verify failed
C2_Witness ==
    \E r, t \in Requests :
        /\ mreq[r].pc = "done" /\ mreq[r].verifyCalls = 1 /\ mreq[r].settleCalls = 1
        /\ mreq[t].pc = "done" /\ mreq[t].verifyCalls = 1 /\ ~mreq[t].verifyValid
        /\ mreq[t].settleCalls = 0

BuyerTransfers == world[TestnetChainId].transfers + world[MainnetChainId].transfers

\* C4: a proof that has led to a paid response is not honoured a second time
\* unless a further on-chain transfer from the buyer takes place: there are
\* never more paid responses to proofs than transfers out of buyers' funds.
C4_NoPaidResponseWithoutTransfer ==
    Cardinality({r \in Requests : Paid(r)}) <= BuyerTransfers

\* C5: the middleware accepts a proof only if it is bound to a 402 challenge it
\* issued: the proof carries the invoice id of a challenge handed out for the
\* same endpoint whose expiry has not passed.
C5_ProofBoundToChallenge ==
    \A r \in Requests :
        Paid(r) =>
            \E c \in issued :
                /\ c.invoiceId = ProofTable[mreq[r].header].payload.invoiceId
                /\ c.endpoint = "/data/premium"
                /\ clock <= c.expiry

\* C8: the middleware signs a transaction with its own key only on the demo
\* path, and the demo path runs only for a request with demo=1, without a
\* PAYMENT-SIGNATURE header, that resolves to the testnet network.
C8_DemoOnlyTestnetOptIn ==
    \A r \in Requests :
        (mreq[r].signed \/ mreq[r].pc = "demo" \/ mreq[r].demoSuccess) =>
            /\ mreq[r].demo
            /\ mreq[r].header = ""
            /\ mreq[r].networkName = "testnet"
            /\ getNetwork(mreq[r].networkName).chainId = TestnetChainId
            /\ mreq[r].verifyCalls = 0

\* the middleware signed and a demo payment went through; another request asked
\* for demo on mainnet and got the 402 challenge
C8_Witness ==
    \E r, t \in Requests :
        /\ mreq[r].signed /\ mreq[r].demoSuccess /\ mreq[r].next
        /\ mreq[t].demo /\ mreq[t].networkName = "mainnet" /\ mreq[t].header = ""
        /\ mreq[t].pc = "done" /\ mreq[t].status = 402

\* the request carried no PAYMENT-SIGNATURE header
NoProofPresented(r) == mreq[r].pc # "new" /\ mreq[r].header = ""

\* the symbol the middleware resolves for the request names a token of the
\* request's network
TokenResolved(r) ==
    LET network == getNetwork(mreq[r].networkName)
        symbol == IF mreq[r].qtoken # "" THEN mreq[r].qtoken ELSE getDefaultToken(network)
    IN  symbol \in DOMAIN network.tokens

DemoActive(r) ==
    /\ TokenResolved(r)
    /\ DemoEligible(mreq[r].demo, mreq[r].networkName, env.demoKey, TokenOfRequest(mreq[r]))

\* the request ended with a 402 and nothing else happened for it
ChallengeIssued(r) ==
    /\ mreq[r].pc = "done" /\ mreq[r].status = 402
    /\ mreq[r].message = "Payment required"
    /\ mreq[r].verifyCalls = 0 /\ mreq[r].settleCalls = 0
    /\ ~mreq[r].signed /\ ~mreq[r].next

IssuedFor(r) == {c \in issued' \ issued : c.invoiceId = InvoiceIdOf[r]}

C17_UndecodableHeaderNot402 ==
    \A r \in Requests :
        (mreq[r].pc = "done" /\ mreq[r].header # "" /\ ~Decodable(mreq[r].header))
        => /\ mreq[r].status \in 400..499
           /\ mreq[r].status # 402
           /\ mreq[r].verifyCalls = 0 /\ mreq[r].settleCalls = 0

\* C18: when the facilitator cannot be reached (connection error, no
\* parsable answer) during verify or settle, the middleware answers the
\* gated request with status 400 or 500, not with 402.
C18_UnreachableFacilitatorNot402 ==
    \A r \in Requests :
        (mreq[r].pc = "done" /\ mreq[r].unreachable) => mreq[r].status \in {400, 500}

\* Every callFacilitator ends: with the facilitator's answer, with an error,
\* or when AbortSignal.timeout(30000) fires; the demo payment has no timeout.
SpecLive ==
    /\ Spec
    /\ \A r \in Requests : WF_vars(MwVerifyReturn(r)) /\ WF_vars(MwSettleReturn(r))

AwaitsFacilitator(r) == mreq[r].header # "" /\ mreq[r].pc \notin {"new", "done"}

\* C19: every gated request that carries a proof eventually reaches a
\* terminal response; a verify or settle call that gets no answer (the 30 s
\* timeout included) is abandoned and the request ends as a payment failure
\* without a retry; no request stays pending.
C19_ProofRequestsTerminate ==
    /\ \A r \in Requests : AwaitsFacilitator(r) ~> (mreq[r].pc = "done")
    /\ [](\A r \in Requests :
            (mreq[r].unreachable /\ mreq[r].pc # "new") =>
                /\ mreq[r].pc = "done" /\ mreq[r].status = 402 /\ ~mreq[r].next
                /\ mreq[r].message \in {"Verification failed", "Settlement failed"})

\* a settle call that got no answer after a valid verify ended the request
C19_Witness ==
    \E r \in Requests :
        /\ mreq[r].unreachable /\ mreq[r].settleCalls = 1
        /\ mreq[r].pc = "done" /\ mreq[r].status = 402

----------------------------------------------------------------------------
(* SpecFac: the facilitator's HTTP dispatcher, facilitator/src/index.ts.   *)
(* A request passes handleRequest's await points: the health balance read, *)
(* the body read, the handler's chain reads (verify) or the sending and    *)
(* the mining of its transaction (settle).                                 *)

FacRequests == {"q1", "q2"}
Methods == {"GET", "POST", "OPTIONS"}
HealthPath == "/x402/health"
VerifyRoutes ==
    [native |-> "/x402/verify-native", erc20 |-> "/x402/verify-erc20",
     eip3009 |-> "/x402/verify-eip3009"]
SettleRoutes ==
    [native |-> "/x402/settle-native", erc20 |-> "/x402/settle-erc20",
     eip3009 |-> "/x402/settle-eip3009"]
PaymentMethods == {"native", "erc20", "eip3009"}
Paths == {HealthPath, "/other"} \cup {VerifyRoutes[m] : m \in PaymentMethods}
            \cup {SettleRoutes[m] : m \in PaymentMethods}

\* cfg.apiKey and the X-API-Key values a request may carry ("": no header)
ApiKey == "secret"
Keys == {ApiKey, "Secret", ""}

\* cfg.network of the facilitator: its default provider and wallet
DefaultChainId == TestnetChainId
UnknownChainId == 5
\* a body.network.chainId that names a property every object inherits
\* ("toString", "constructor", "__proto__"): the caches are plain objects
InheritedKey == 6
\* body.network.chainId of a JSON body; 0: the field is absent
BodyChainIds == {0, TestnetChainId, MainnetChainId, UnknownChainId, InheritedKey}
\* the chain ids of the facilitator's NETWORKS
Configured == {TestnetChainId, MainnetChainId}

\* RPC clients: a provider, or a wallet bound to a provider; id tells the
\* instances apart
NoClient == [kind |-> "none", id |-> 0, provider |-> 0, chainId |-> 0]
Provider(id, chainId) == [kind |-> "provider", id |-> id, provider |-> 0, chainId |-> chainId]
Wallet(id, provider, chainId) ==
    [kind |-> "wallet", id |-> id, provider |-> provider.id, chainId |-> chainId]
\* what the lookup of an inherited key returns: a value that is no client
InheritedValue == [kind |-> "inherited", id |-> 0, provider |-> 0, chainId |-> 0]
DefaultProvider == Provider(1, DefaultChainId)
DefaultWallet == Wallet(2, DefaultProvider, DefaultChainId)

\* providerCache[chainId], walletCache[chainId]
Lookup(cache, chainId) ==
    IF chainId = InheritedKey THEN InheritedValue
    ELSE IF chainId \in DOMAIN cache THEN cache[chainId]
    ELSE NoClient

getProviderForChain_NoCacheCheck(srv, chainId) ==
    IF chainId \notin Configured
    THEN [thrown |-> TRUE, value |-> NoClient, srv |-> srv]
    ELSE LET p == Provider(srv.built + 1, chainId)
         IN  [thrown |-> FALSE, value |-> p,
              srv |-> [srv EXCEPT !.built = @ + 1,
                                  !.providerCache = (chainId :> p) @@ @]]

getProviderForChain(srv, chainId) ==
    LET hit == Lookup(srv.providerCache, chainId)
    IN  IF hit.kind # "none" THEN [thrown |-> FALSE, value |-> hit, srv |-> srv]
        ELSE IF chainId \notin Configured
        THEN [thrown |-> TRUE, value |-> NoClient, srv |-> srv]
        ELSE LET p == Provider(srv.built + 1, chainId)
             IN  [thrown |-> FALSE, value |-> p,
                  srv |-> [srv EXCEPT !.built = @ + 1,
                                      !.providerCache = (chainId :> p) @@ @]]

getWalletForChain(srv, chainId) ==
    LET hit == Lookup(srv.walletCache, chainId)
        got == getProviderForChain(srv, chainId)
    IN  IF hit.kind # "none" THEN [thrown |-> FALSE, value |-> hit, srv |-> srv]
        ELSE IF got.thrown THEN [thrown |-> TRUE, value |-> NoClient, srv |-> srv]
        ELSE LET w == Wallet(got.srv.built + 1, got.value, chainId)
             IN  [thrown |-> FALSE, value |-> w,
                  srv |-> [got.srv EXCEPT !.built = @ + 1,
                                          !.walletCache = (chainId :> w) @@ @]]

\* handleRequest: the provider and wallet of the request's chain, the
\* default ones when body.network.chainId is falsy
ResolveClients(srv, chainId) ==
    LET p == getProviderForChain(srv, chainId)
        w == getWalletForChain(p.srv, chainId)
    IN  IF chainId = 0
        THEN [thrown |-> FALSE, provider |-> DefaultProvider, wallet |-> DefaultWallet,
              srv |-> srv]
        ELSE IF p.thrown \/ w.thrown
        THEN [thrown |-> TRUE, provider |-> NoClient, wallet |-> NoClient, srv |-> srv]
        ELSE [thrown |-> FALSE, provider |-> p.value, wallet |-> w.value, srv |-> w.srv]
\* what the request stream delivers: over 1 MiB, not JSON, the JSON null, or
\* a JSON object
BodyKinds == {"toolarge", "notjson", "null", "object"}

checkAuth_AnyKey(key) == key # ""

\* checkAuth: the X-API-Key header is strictly equal to cfg.apiKey
checkAuth(key) == key = ApiKey

Caip2Of(chainId) ==
    CASE chainId = TestnetChainId -> TestnetCaip2
      [] chainId = MainnetChainId -> MainnetCaip2
      [] OTHER -> TestnetCaip2

\* the payment method a route serves, "" for any other path
MethodOfPath(path) ==
    IF \E m \in PaymentMethods : path \in {VerifyRoutes[m], SettleRoutes[m]}
    THEN CHOOSE m \in PaymentMethods : path \in {VerifyRoutes[m], SettleRoutes[m]}
    ELSE ""

\* the JSON object a client posts to a route: the buyer's proof for the
\* route's payment method and the seller's requirements
PostedBody(path, chainId) ==
    LET m == MethodOfPath(path) IN
    [payload |-> CASE m = "erc20" -> ProofTable["pe"]
                   [] m = "eip3009" -> ProofTable["p3"]
                   [] OTHER -> ProofTable["pn"],
     token |-> CASE m = "erc20" -> TokenUSDT(1000)
                 [] m = "eip3009" -> TokenUSDT0(100)
                 [] OTHER -> TokenCFX(1000),
     network |-> [chainId |-> chainId, caip2 |-> Caip2Of(chainId)],
     treasury |-> Treasury, paymentContract |-> PaymentContract]

NewFacRequest ==
    [pc |-> "new", method |-> "", path |-> "", key |-> "", bodyKind |-> "",
     chainId |-> 0, status |-> 0, answer |-> NullAnswer,
     bodyRead |-> FALSE, parsed |-> FALSE, provider |-> 0, wallet |-> 0,
     handler |-> "", mined |-> FALSE, confirmed |-> FALSE, clientGone |-> FALSE,
     streamOpen |-> FALSE, parseAttempted |-> FALSE,
     reqProvider |-> NoClient, reqWallet |-> NoClient]

\* sendJson(res, status, data)
sendJson(q, status, data) == [q EXCEPT !.pc = "done", !.status = status, !.answer = data]

FacError(message) == [NullAnswer EXCEPT !.json = TRUE, !.error = message]
HealthAnswer == [NullAnswer EXCEPT !.json = TRUE, !.reason = "ok"]

\* an exception leaves handleRequest: the request gets no answer, and the
\* process either goes on (the rejection is only reported) or exits
Unhandled(r, q, exits) ==
    /\ freq' = [freq EXCEPT ![r] = [q EXCEPT !.pc = "hung"]]
    /\ fsrv' = [fsrv EXCEPT !.up = ~exits]

\* handleRequest up to its first await
FacReceive(r) ==
    /\ fsrv.up
    /\ freq[r].pc = "new"
    /\ \E method \in Methods, path \in Paths, key \in Keys :
        LET q == [freq[r] EXCEPT !.method = method, !.path = path, !.key = key] IN
        freq' = [freq EXCEPT ![r] =
            IF method = "OPTIONS" THEN [q EXCEPT !.pc = "done", !.status = 200]
            ELSE IF path = HealthPath /\ method = "GET" THEN [q EXCEPT !.pc = "health"]
            ELSE IF ~checkAuth(key) THEN sendJson(q, 401, FacError("Invalid API key"))
            ELSE [q EXCEPT !.pc = "body"]]
    /\ UNCHANGED <<verifyVars, chainVars, mwVars, fsrv, rateVars, solVars, appVars>>

\* the health check after defaultProvider.getBalance returned or threw
FacHealth(r) ==
    /\ fsrv.up
    /\ freq[r].pc = "health"
    /\ \E balanceOk \in BOOLEAN, exits \in BOOLEAN :
        IF balanceOk
        THEN /\ ~exits
             /\ freq' = [freq EXCEPT ![r] = sendJson(freq[r], 200, HealthAnswer)]
             /\ UNCHANGED fsrv
        ELSE Unhandled(r, freq[r], exits)
    /\ UNCHANGED <<verifyVars, chainVars, mwVars, rateVars, solVars, appVars>>

IsVerifyRoute(path) == \E m \in PaymentMethods : path = VerifyRoutes[m]
IsSettleRoute(path) == \E m \in PaymentMethods : path = SettleRoutes[m]

\* handleRequest from the end of parseBody to the call of a handler: the 400
\* answers, the provider and wallet of the request's chain (cached on first
\* use), the route table and its 404
FacBody(r) ==
    /\ fsrv.up
    /\ freq[r].pc = "body"
    /\ \E kind \in BodyKinds, chainId \in BodyChainIds, exits \in BOOLEAN :
        /\ kind # "object" => chainId = 0
        /\ LET q == [freq[r] EXCEPT !.bodyRead = TRUE, !.bodyKind = kind,
                                    !.chainId = chainId,
                                    !.streamOpen = (kind = "toolarge"),
                                    !.parseAttempted = (kind # "toolarge")]
               parsed == [q EXCEPT !.parsed = TRUE]
               clients == ResolveClients(fsrv, chainId)
               resolved == [parsed EXCEPT
                               !.reqProvider = clients.provider,
                               !.reqWallet = clients.wallet,
                               !.provider = IF chainId \in Configured THEN chainId
                                            ELSE DefaultChainId,
                               !.wallet = IF chainId \in Configured THEN chainId
                                          ELSE DefaultChainId]
               cached == clients.srv
               routed == q.method = "POST" /\ MethodOfPath(q.path) # ""
           IN  IF kind \in {"toolarge", "notjson"}
               THEN /\ freq' = [freq EXCEPT ![r] =
                                  sendJson(q, 400, FacError("Invalid request body"))]
                    /\ ~exits /\ UNCHANGED fsrv
               ELSE IF clients.thrown
               THEN /\ freq' = [freq EXCEPT ![r] =
                                  sendJson(parsed, 400, FacError("Unsupported chain"))]
                    /\ ~exits /\ UNCHANGED fsrv
               ELSE IF ~routed
               THEN /\ freq' = [freq EXCEPT ![r] =
                                  sendJson(resolved, 404, FacError("Not found"))]
                    /\ ~exits /\ fsrv' = cached
               ELSE IF kind = "null"
               THEN Unhandled(r, [resolved EXCEPT !.handler = q.path], exits)
               ELSE /\ freq' = [freq EXCEPT ![r] =
                                  [resolved EXCEPT
                                      !.handler = q.path,
                                      !.pc = IF IsVerifyRoute(q.path) THEN "verify"
                                             ELSE "settle"]]
                    /\ ~exits /\ fsrv' = cached
    /\ UNCHANGED <<verifyVars, chainVars, mwVars, rateVars, solVars, appVars>>

\* parseBody's 'end' listener after its 'data' listener rejected the body as
\* too large: the listeners stay attached, the rest of the body is appended
\* and JSON.parse is applied to it (resolve and reject are then without
\* effect)
FacStreamEnd(r) ==
    /\ fsrv.up
    /\ freq[r].streamOpen
    /\ freq' = [freq EXCEPT ![r] = [@ EXCEPT !.streamOpen = FALSE, !.parseAttempted = TRUE]]
    /\ UNCHANGED <<verifyVars, chainVars, mwVars, fsrv, rateVars, solVars, appVars>>

\* a verify handler returns; the dispatcher answers 200 with its result
\* (every read through a provider that is no RPC client throws)
FacVerify(r) ==
    /\ fsrv.up
    /\ freq[r].pc = "verify"
    /\ \E failAt \in 0..1 :
        LET q == freq[r]
            res == DispatchVerify(MethodOfPath(q.path), PostedBody(q.path, q.chainId),
                                  View(world[q.provider], clock, failAt))
        IN  /\ q.reqProvider.kind # "provider" => failAt = 1
            /\ freq' = [freq EXCEPT ![r] = sendJson(q, 200, VerifyAnswer(res))]
    /\ UNCHANGED <<verifyVars, chainVars, mwVars, fsrv, rateVars, solVars, appVars>>

SettleStatus_Always200(result) == 200

\* the dispatcher's answer to a settle handler's result
SettleStatus(result) == IF result.success THEN 200 ELSE 500

\* a settle handler's result when its transaction cannot be sent: a result
\* other than the RPC error was reached before anything is sent
BeforeSend(q) ==
    DispatchSettle(MethodOfPath(q.path), PostedBody(q.path, q.chainId),
                   world[q.wallet], FALSE, clock).result

\* a settle handler up to the sending of its transaction (nothing can be
\* sent through a wallet that is no RPC client)
FacSend(r) ==
    /\ fsrv.up
    /\ freq[r].pc = "settle"
    /\ \E rpcOk \in BOOLEAN :
        LET q == freq[r]
            early == BeforeSend(q)
        IN  /\ q.reqWallet.kind # "wallet" => ~rpcOk
            /\ freq' = [freq EXCEPT ![r] =
                IF early.success \/ early.error # RpcError \/ ~rpcOk
                THEN sendJson(q, SettleStatus(early), SettleAnswer(early))
                ELSE [q EXCEPT !.pc = "sent"]]
    /\ UNCHANGED <<verifyVars, chainVars, mwVars, fsrv, rateVars, solVars, appVars>>

FacMined_AbortedByDisconnect(r) ==
    /\ fsrv.up
    /\ freq[r].pc = "sent"
    /\ IF freq[r].clientGone
       THEN /\ freq' = [freq EXCEPT ![r] = [@ EXCEPT !.pc = "aborted"]]
            /\ UNCHANGED world
       ELSE LET q == freq[r]
                ran == DispatchSettle(MethodOfPath(q.path), PostedBody(q.path, q.chainId),
                                      world[q.wallet], TRUE, clock)
            IN  /\ world' = [world EXCEPT ![q.wallet] = ran.chain]
                /\ freq' = [freq EXCEPT ![r] =
                        [sendJson(q, SettleStatus(ran.result), SettleAnswer(ran.result))
                            EXCEPT !.mined = TRUE, !.confirmed = TRUE]]
    /\ UNCHANGED <<verifyVars, clock, mwVars, fsrv, rateVars, solVars, appVars>>

\* the transaction of a settle handler is mined (it transfers or reverts) and
\* tx.wait() returns, or throws although the transaction was mined
FacMined(r) ==
    /\ fsrv.up
    /\ freq[r].pc = "sent"
    /\ \E waitOk \in BOOLEAN :
        LET q == freq[r]
            ran == DispatchSettle(MethodOfPath(q.path), PostedBody(q.path, q.chainId),
                                  world[q.wallet], TRUE, clock)
            result == IF waitOk THEN ran.result ELSE Failure(RpcError)
        IN  /\ world' = [world EXCEPT ![q.wallet] = ran.chain]
            /\ freq' = [freq EXCEPT ![r] =
                    [sendJson(q, SettleStatus(result), SettleAnswer(result)) EXCEPT
                        !.mined = TRUE, !.confirmed = waitOk]]
    /\ UNCHANGED <<verifyVars, clock, mwVars, fsrv, rateVars, solVars, appVars>>

\* the client of a request that is being settled disconnects or gives up
\* waiting: handleRequest listens to no close or abort event of the request,
\* and the handlers are given no abort signal
FacClientGone(r) ==
    /\ fsrv.up
    /\ freq[r].pc \in {"settle", "sent"}
    /\ ~freq[r].clientGone
    /\ freq' = [freq EXCEPT ![r].clientGone = TRUE]
    /\ UNCHANGED <<verifyVars, chainVars, mwVars, fsrv, rateVars, solVars, appVars>>

\* the buyer's USDT allowance to the payment contract and USDT balance
Funds == {<<2000, 2000>>, <<2000, 1000>>, <<1000, 2000>>, <<999, 2000>>}

InitFac ==
    /\ VerifyIdle
    /\ MwIdle /\ RateIdle /\ SolIdle /\ AppIdle
    /\ \E f \in Funds :
        /\ world = (TestnetChainId :> InitChain(TestnetChainId, "0xusdt", f[1], f[2]))
                    @@ (MainnetChainId :> InitChain(MainnetChainId, "0xusdt0", f[1], f[2]))
        /\ fsrv = [up |-> TRUE, providerCache |-> <<>>, walletCache |-> <<>>, built |-> 2,
                   allowance0 |-> f[1], balance0 |-> f[2]]
    /\ clock = ValidBefore - 1
    /\ freq = [r \in FacRequests |-> NewFacRequest]

NextFac ==
    \/ \E r \in FacRequests : FacReceive(r)
    \/ \E r \in FacRequests : FacHealth(r)
    \/ \E r \in FacRequests : FacBody(r)
    \/ \E r \in FacRequests : FacStreamEnd(r)
    \/ \E r \in FacRequests : FacVerify(r)
    \/ \E r \in FacRequests : FacSend(r)
    \/ \E r \in FacRequests : FacMined(r)
    \/ \E r \in FacRequests : FacClientGone(r)

SpecFac == InitFac /\ [][NextFac]_vars

\* a submitted transaction is mined, or tx.wait() throws
\* (from the one initial state whose funds cover the amount once)
InitFacLive == InitFac /\ fsrv.allowance0 = 1000 /\ fsrv.balance0 = 2000

SpecFacLive ==
    /\ InitFacLive /\ [][NextFac]_vars
    /\ \A r \in FacRequests : WF_vars(FacMined(r))

\* every await of handleRequest settles: the balance read and the chain reads
\* return or throw, the request stream ends or fails, a submitted
\* transaction is mined or tx.wait() throws
SpecFacFair ==
    /\ InitFacLive /\ [][NextFac]_vars
    /\ \A r \in FacRequests :
          /\ WF_vars(FacHealth(r)) /\ WF_vars(FacBody(r)) /\ WF_vars(FacVerify(r))
          /\ WF_vars(FacSend(r)) /\ WF_vars(FacMined(r))

----------------------------------------------------------------------------
(* Properties of the facilitator (SpecFac) *)

Received(r) == freq[r].pc # "new"
IsHealthCheck(r) == freq[r].path = HealthPath /\ freq[r].method = "GET"
Unauthenticated(r) == Received(r) /\ ~IsHealthCheck(r) /\ freq[r].key # ApiKey

\* nothing but the answer happened for the request
Untouched(r) ==
    /\ ~freq[r].bodyRead /\ ~freq[r].parseAttempted /\ ~freq[r].parsed
    /\ freq[r].provider = 0 /\ freq[r].wallet = 0
    /\ freq[r].handler = "" /\ ~freq[r].mined

Rejected401(r) ==
    /\ freq[r].pc = "done"
    /\ freq[r].status = 401
    /\ freq[r].answer = FacError("Invalid API key")
    /\ Untouched(r)

SettleCall(r, m) ==
    /\ freq[r].method = "POST" /\ freq[r].path = SettleRoutes[m]
    /\ freq[r].handler = SettleRoutes[m]

Failed500(r) ==
    /\ freq[r].status = 500
    /\ freq[r].answer.json /\ ~freq[r].answer.success /\ freq[r].answer.error # ""

\* C9: once settle-eip3009 has succeeded for a signed authorization, every
\* other settle-eip3009 call with the identical authorization is answered
\* {success:false, error} with HTTP 500; the buyer is debited once, and the
\* facilitator process is still up.
C9_ReplayedAuthorizationFails ==
    \A r, t \in FacRequests :
        ( /\ r # t
          /\ SettleCall(r, "eip3009") /\ SettleCall(t, "eip3009")
          /\ freq[r].chainId = freq[t].chainId
          /\ freq[r].status = 200 /\ freq[t].pc = "done" )
        => /\ Failed500(t)
           /\ fsrv.up
           /\ BalanceOf(world[freq[r].wallet], "0xusdt0", "0xa")
                = 2000 - BuyerAuthorization.value

\* the replayed authorization was sent, and reverted on the consumed nonce
C9_Witness ==
    \E r, t \in FacRequests :
        /\ r # t
        /\ SettleCall(r, "eip3009") /\ SettleCall(t, "eip3009")
        /\ freq[r].status = 200
        /\ freq[t].mined /\ freq[t].confirmed /\ freq[t].status = 500
        /\ freq[t].answer.error = "authorization is used or canceled"

\* two finished settle-erc20 calls with the same body
SamePayloadDone(r, t) ==
    /\ r # t
    /\ SettleCall(r, "erc20") /\ SettleCall(t, "erc20")
    /\ freq[r].chainId = freq[t].chainId
    /\ freq[r].pc = "done" /\ freq[t].pc = "done"

Erc20Amount == ProofTable["pe"].payload.amount.n
\* how many transfers of the amount the buyer's initial allowance and balance cover
Covered ==
    IF fsrv.allowance0 >= 2 * Erc20Amount /\ fsrv.balance0 >= 2 * Erc20Amount THEN 2
    ELSE IF fsrv.allowance0 >= Erc20Amount /\ fsrv.balance0 >= Erc20Amount THEN 1
    ELSE 0
Succeeded(r, t) == Cardinality({x \in {r, t} : freq[x].status = 200})

\* C10 as stated: of two settle-erc20 calls with the same payload both return
\* success:true exactly when allowance and balance each cover twice the
\* amount; otherwise exactly one returns success:true and the other
\* {success:false, error}.
C10_BothOrExactlyOne ==
    \A r, t \in FacRequests :
        SamePayloadDone(r, t) =>
            IF Covered = 2 THEN Succeeded(r, t) = 2
            ELSE Succeeded(r, t) = 1 /\ (Failed500(r) \/ Failed500(t))

\* C10: the facilitator does no de-duplication: of two settle-erc20 calls with
\* the same payload no more succeed than the buyer's allowance and balance
\* cover; when both transactions are mined and confirmed to the handler,
\* both succeed if the funds cover twice the amount, exactly one if they
\* cover it once only, none if they do not cover it; every call that does
\* not succeed returns {success:false, error} with HTTP 500.
C10_SettlesBoundedByFunds ==
    \A r, t \in FacRequests :
        SamePayloadDone(r, t) =>
            /\ Succeeded(r, t) <= Covered
            /\ (freq[r].confirmed /\ freq[t].confirmed) => Succeeded(r, t) = Covered
            /\ \A x \in {r, t} : freq[x].status # 200 => Failed500(x)

\* both transactions were mined and neither call succeeded: the allowance
\* does not cover the amount once
C10_Witness ==
    \E r, t \in FacRequests :
        /\ SamePayloadDone(r, t)
        /\ freq[r].confirmed /\ freq[t].confirmed
        /\ Succeeded(r, t) = 0
        /\ Covered = 0

\* C20: once a settle handler (erc20 or eip3009) has submitted its
\* transaction, a disconnect or timeout of the calling client does not abort
\* it: while the process is up the only step of the request is the handler's
\* confirmation, and the handler reaches its result.
C20_DisconnectDoesNotAbortSettle ==
    /\ \A r \in FacRequests :
          (freq[r].pc = "sent" /\ freq[r].clientGone)
              ~> ((freq[r].pc = "done" /\ freq[r].mined) \/ ~fsrv.up)
    /\ [][\A r \in FacRequests :
            (freq[r].pc = "sent" /\ freq'[r].pc # "sent")
                => (freq'[r].pc = "done" /\ freq'[r].mined /\ freq'[r].answer.json)]_vars

\* the client left while the transaction was in flight and the settlement
\* still succeeded on chain
C20_Witness ==
    \E r \in FacRequests :
        /\ freq[r].clientGone /\ freq[r].mined /\ freq[r].confirmed
        /\ freq[r].pc = "done" /\ freq[r].status = 200
        /\ world[freq[r].wallet].transfers = 1

\* C21 as stated: every request the dispatcher received is eventually
\* answered, whatever its method, path, key and body and whatever the chain
\* RPC does.
C21_EveryRequestResponded ==
    \A r \in FacRequests : Received(r) ~> (freq[r].pc = "done")

\* C22 as stated: an authenticated request whose body exceeds 1,048,576
\* characters is answered 400, JSON parsing is never applied to its body and
\* no handler runs for it; a body that is not valid JSON is answered 400.
C22_OversizedBodyNeverParsed ==
    \A r \in FacRequests :
        /\ freq[r].bodyKind \in {"toolarge", "notjson"} =>
              /\ freq[r].pc = "done" /\ freq[r].status = 400
              /\ freq[r].handler = "" /\ ~freq[r].mined
        /\ freq[r].bodyKind = "toolarge" => ~freq[r].parseAttempted

\* the request's body was parsed and names this chain id (0: none)
NamesChain(r) == freq[r].parsed /\ freq[r].bodyKind = "object" /\ freq[r].chainId # 0

\* C23 as stated: an authenticated request that names a chain id not among
\* the configured networks is answered 400 and runs no handler; a request
\* that names no chain id is served with the default provider and wallet.
C23_UnconfiguredChain400 ==
    \A r \in FacRequests :
        /\ (NamesChain(r) /\ freq[r].chainId \notin Configured) =>
              /\ freq[r].pc = "done" /\ freq[r].status = 400
              /\ freq[r].handler = ""
              /\ freq[r].reqProvider = NoClient /\ freq[r].reqWallet = NoClient
        /\ (freq[r].parsed /\ freq[r].chainId = 0) =>
              /\ freq[r].reqProvider = DefaultProvider
              /\ freq[r].reqWallet = DefaultWallet

\* the request was given clients for a configured chain id it names
ServedOnChain(r, c) ==
    /\ NamesChain(r) /\ freq[r].chainId = c
    /\ freq[r].reqProvider # NoClient

CachesSound ==
    /\ DOMAIN fsrv.providerCache \subseteq Configured
    /\ DOMAIN fsrv.walletCache \subseteq DOMAIN fsrv.providerCache
    /\ \A c \in DOMAIN fsrv.providerCache :
          /\ fsrv.providerCache[c].kind = "provider"
          /\ fsrv.providerCache[c].chainId = c
    /\ \A c \in DOMAIN fsrv.walletCache :
          /\ fsrv.walletCache[c].kind = "wallet"
          /\ fsrv.walletCache[c].chainId = c
          /\ fsrv.walletCache[c].provider = fsrv.providerCache[c].id
    /\ \A r \in FacRequests : \A c \in Configured :
          ServedOnChain(r, c) =>
              /\ c \in DOMAIN fsrv.walletCache
              /\ freq[r].reqProvider = fsrv.providerCache[c]
              /\ freq[r].reqWallet = fsrv.walletCache[c]

CachesKept ==
    /\ \A c \in DOMAIN fsrv.providerCache :
          c \in DOMAIN fsrv'.providerCache
              /\ fsrv'.providerCache[c] = fsrv.providerCache[c]
    /\ \A c \in DOMAIN fsrv.walletCache :
          c \in DOMAIN fsrv'.walletCache
              /\ fsrv'.walletCache[c] = fsrv.walletCache[c]

\* C24: under any interleaving of requests a provider or wallet stored in the
\* cache for a chain id is never replaced, every request that names the chain
\* id is given that instance, the cached wallet of a chain id is bound to the
\* cached provider of the same chain id, and the caches hold configured chain
\* ids only.
C24_CachedClientsStable == [](CachesSound) /\ [][CachesKept]_vars

\* two requests naming the same chain were given the same provider and wallet,
\* built once
C24_Witness ==
    \E r, t \in FacRequests :
        /\ r # t
        /\ ServedOnChain(r, MainnetChainId) /\ ServedOnChain(t, MainnetChainId)
        /\ freq[r].reqWallet = freq[t].reqWallet
        /\ freq[r].reqWallet.kind = "wallet"
        /\ freq[r].reqWallet.provider = freq[r].reqProvider.id
        /\ freq[r].pc = "done" /\ freq[t].pc = "done"

\* the handler of the request's route returned and its result was sent
HandlerAnswered(r) == freq[r].pc = "done" /\ freq[r].handler # ""

\* C25: every result of a verify handler is sent with status 200, valid or
\* not; every result of a settle handler is sent with status 200 exactly when
\* it has success:true and with 500 otherwise, for the three payment methods.
C25_VerifyAlways200SettleBySuccess ==
    \A r \in FacRequests :
        HandlerAnswered(r) =>
            /\ freq[r].answer.json
            /\ IsVerifyRoute(freq[r].handler) => freq[r].status = 200
            /\ IsSettleRoute(freq[r].handler) =>
                  /\ freq[r].status \in {200, 500}
                  /\ freq[r].status = 200 <=> freq[r].answer.success

\* a verify result that is not valid was sent with 200 and a failed
\* settlement with 500
C25_Witness ==
    \E r, t \in FacRequests :
        /\ HandlerAnswered(r) /\ IsVerifyRoute(freq[r].handler)
        /\ ~freq[r].answer.valid /\ freq[r].status = 200
        /\ HandlerAnswered(t) /\ IsSettleRoute(freq[t].handler)
        /\ ~freq[t].answer.success /\ freq[t].status = 500

----------------------------------------------------------------------------
(* SpecSettle: a settle handler called once and again with the same body,  *)
(* on inputs drawn from bounded sets; world holds the chain it acts on.    *)

MaxSettleCalls == 2

SettleInput(method, envelope, token, paymentContract, chain) ==
    [method |-> method, body |-> Body(envelope, token, paymentContract), chain |-> chain]

\* the testnet chain before the calls; paid: the buyer's payNative h1 is mined
SettleChain(token, allowance, paid) ==
    LET chain == InitChain(TestnetChainId, token, allowance, 2000) IN
    IF paid
    THEN [chain EXCEPT !.receipt["h1"] = [found |-> TRUE, status |-> 1],
                       !.tx["h1"] = [found |-> TRUE, value |-> 1000, from |-> "0xa",
                                     to |-> PaymentContract]]
    ELSE chain

InitSettleNative ==
    \E v \in Versions, bare \in BOOLEAN, h \in {"", "h1", "h9"}, f \in {"", "0xa", "0xB"},
       a \in {Absent, Bad, Num(1000)}, paid \in BOOLEAN :
        /\ bare => (h = "" /\ f = "" /\ a = Absent)
        /\ vin = SettleInput("native",
                    IF bare THEN BareEnvelope(v, <<"exact", TestnetCaip2>>)
                    ELSE Envelope(v, <<"exact", TestnetCaip2>>, NativePayload(h, f, a)),
                    TokenCFX(1000), PaymentContract, SettleChain("0xusdt", 1000, paid))

InitSettleErc20 ==
    \E bare \in BOOLEAN, f \in {"", "0xa"}, a \in {Absent, Num(0), Num(1000)},
       pc \in {"", PaymentContract}, al \in {999, 1000, 2000} :
        /\ bare => (f = "" /\ a = Absent)
        /\ vin = SettleInput("erc20",
                    IF bare THEN BareEnvelope(2, <<"exact", TestnetCaip2>>)
                    ELSE Envelope(2, <<"exact", TestnetCaip2>>,
                                  Erc20Payload(f, a, "inv1", "")),
                    TokenUSDT(1000), pc, SettleChain("0xusdt", al, FALSE))

InitSettleEip3009 ==
    \E bare \in BOOLEAN, sk \in {"self", "stranger", "value"}, val \in {100, 3000} :
        LET auth == Authorization("0xA", Treasury, val) IN
        /\ bare => (sk = "self" /\ val = 100)
        /\ vin = SettleInput("eip3009",
                    IF bare THEN BareEnvelope(2, <<"exact", TestnetCaip2>>)
                    ELSE Envelope(2, <<"exact", TestnetCaip2>>,
                                  Eip3009Payload(SignatureFor(sk, auth, TokenUSDT0(100)),
                                                 auth)),
                    TokenUSDT0(100), PaymentContract, SettleChain("0xusdt0", 1000, FALSE))

InitSettle ==
    /\ InitSettleNative \/ InitSettleErc20 \/ InitSettleEip3009
    /\ vout = <<>>
    /\ world = (TestnetChainId :> vin.chain)
    /\ clock \in {ValidAfter, ValidAfter + 1, ValidBefore}
    /\ MwIdle /\ FacIdle /\ RateIdle /\ SolIdle /\ AppIdle

\* one more call of the handler with the same body; rpcOk: the relayer's
\* provider accepts a transaction
RepeatSettle(method) ==
    /\ vin.method = method
    /\ Len(vout) < MaxSettleCalls
    /\ \E rpcOk \in BOOLEAN :
        LET ran == DispatchSettle(method, vin.body, world[TestnetChainId], rpcOk, clock)
        IN  /\ vout' = Append(vout, ran.result)
            /\ world' = [world EXCEPT ![TestnetChainId] = ran.chain]
    /\ UNCHANGED <<vin, clock, mwVars, facVars, rateVars, solVars, appVars>>

SettleNativeCall == RepeatSettle("native")
SettleErc20Call == RepeatSettle("erc20")
SettleEip3009Call == RepeatSettle("eip3009")

NextSettle == SettleNativeCall \/ SettleErc20Call \/ SettleEip3009Call

SpecSettle == InitSettle /\ [][NextSettle]_vars

\* C13 as stated: settleNative makes no chain call and returns {success:true,
\* transaction: payload txHash, payer: payload from} for any payload, and the
\* same again when called again with the same payload.
C13_NativeSettleEchoesAnyPayload ==
    vin.method = "native" =>
        /\ world[TestnetChainId] = vin.chain
        /\ \A i \in 1..Len(vout) :
              vout[i] = Success(vin.body.payload.payload.txHash,
                                vin.body.payload.payload.from)

\* C13: settleNative makes no chain call; for any payload that carries the
\* inner payload object it returns {success:true, transaction: its txHash,
\* payer: its from}, for a payload without one {success:false, error}; called
\* again with the same payload it returns the same result.
C13_NativeSettleEchoes ==
    vin.method = "native" =>
        /\ world[TestnetChainId] = vin.chain
        /\ \A i \in 1..Len(vout) :
              vout[i] = IF vin.body.payload.hasPayload
                        THEN Success(vin.body.payload.payload.txHash,
                                     vin.body.payload.payload.from)
                        ELSE Failure(TypeError)

\* settle-native was called twice for a transaction hash that is not on the
\* chain and answered success both times
C13_Witness ==
    /\ vin.method = "native" /\ Len(vout) = 2
    /\ vin.body.payload.payload.txHash = "h9"
    /\ vout[1].success /\ vout[2] = vout[1]

----------------------------------------------------------------------------
(* SpecRate: the seller's rate limiter, seller/src/middleware/             *)
(* rateLimiter.ts. store is the module's Map; rlog records every request   *)
(* the middleware handled: its key, its time, the resetAt of the entry it  *)
(* was counted in, whether next() ran, the status and the headers.         *)

\* rateLimiter(limit, windowMs) as the application configures it, scaled
Limit == 2
WindowMs == 3
MaxNowMs == 6
MaxHandled == 5
\* `${ip}:${pathname}`
RateKeys == {"10.0.0.1:/data/premium", "10.0.0.2:/data/premium"}

NoHeader == 0 - 1
\* Math.ceil(ms / 1000)
CeilSeconds(ms) == (ms + 999) \div 1000
\* Math.max(0, n)
AtLeastZero(n) == IF n < 0 THEN 0 ELSE n

rateLimiter_CountNotStored(st, key, now, limit, windowMs) ==
    IF key \notin DOMAIN st \/ st[key].resetAt < now
    THEN [store |-> (key :> [count |-> 1, resetAt |-> now + windowMs]) @@ st,
          window |-> now + windowMs, next |-> TRUE, status |-> 200,
          remaining |-> limit - 1, retryAfter |-> NoHeader]
    ELSE [store |-> st, window |-> st[key].resetAt,
          next |-> st[key].count + 1 <= limit,
          status |-> IF st[key].count + 1 > limit THEN 429 ELSE 200,
          remaining |-> AtLeastZero(limit - (st[key].count + 1)),
          retryAfter |-> IF st[key].count + 1 > limit
                         THEN CeilSeconds(st[key].resetAt - now) ELSE NoHeader]

\* the middleware rateLimiter(limit, windowMs) returns, run for one request;
\* status 200 stands for whatever the downstream handler answers
rateLimiter(st, key, now, limit, windowMs) ==
    IF key \notin DOMAIN st \/ st[key].resetAt < now
    THEN [store |-> (key :> [count |-> 1, resetAt |-> now + windowMs]) @@ st,
          window |-> now + windowMs, next |-> TRUE, status |-> 200,
          remaining |-> limit - 1, retryAfter |-> NoHeader]
    ELSE LET count == st[key].count + 1
             counted == [st EXCEPT ![key].count = count]
         IN  IF count > limit
             THEN [store |-> counted, window |-> st[key].resetAt, next |-> FALSE,
                   status |-> 429, remaining |-> AtLeastZero(limit - count),
                   retryAfter |-> CeilSeconds(st[key].resetAt - now)]
             ELSE [store |-> counted, window |-> st[key].resetAt, next |-> TRUE,
                   status |-> 200, remaining |-> AtLeastZero(limit - count),
                   retryAfter |-> NoHeader]

\* a request of a client reaches the middleware
RateRequest(key) ==
    /\ Len(rlog) < MaxHandled
    /\ LET ran == rateLimiter(store, key, nowMs, Limit, WindowMs)
       IN  /\ store' = ran.store
           /\ rlog' = Append(rlog, [key |-> key, at |-> nowMs, window |-> ran.window,
                                    next |-> ran.next, status |-> ran.status,
                                    remaining |-> ran.remaining,
                                    retryAfter |-> ran.retryAfter])
    /\ UNCHANGED <<nowMs, verifyVars, chainVars, mwVars, facVars, solVars, appVars>>

\* the setInterval callback: entries whose resetAt has passed are deleted
RateCleanup ==
    /\ \E key \in DOMAIN store : store[key].resetAt < nowMs
    /\ store' = [key \in {k \in DOMAIN store : ~(store[k].resetAt < nowMs)} |-> store[key]]
    /\ UNCHANGED <<rlog, nowMs, verifyVars, chainVars, mwVars, facVars, solVars, appVars>>

\* a millisecond passes
RateTick ==
    /\ nowMs < MaxNowMs
    /\ nowMs' = nowMs + 1
    /\ UNCHANGED <<store, rlog, verifyVars, chainVars, mwVars, facVars, solVars, appVars>>

InitRate ==
    /\ VerifyIdle /\ ChainIdle /\ MwIdle /\ FacIdle /\ SolIdle /\ AppIdle
    /\ store = <<>>
    /\ rlog = <<>>
    /\ nowMs = 0

NextRate ==
    \/ \E key \in RateKeys : RateRequest(key)
    \/ RateCleanup
    \/ RateTick

SpecRate == InitRate /\ [][NextRate]_vars

----------------------------------------------------------------------------
(* Properties of the rate limiter (SpecRate) *)

\* the requests of a key counted in the window that ends at resetAt, up to
\* and including the i-th handled request
CountedUpTo(i, key, resetAt) ==
    {j \in 1..i : rlog[j].key = key /\ rlog[j].window = resetAt}

\* the place of the i-th handled request among those of its key and window
RankOf(i) == Cardinality(CountedUpTo(i, rlog[i].key, rlog[i].window))

PassedIn(key, resetAt) ==
    {j \in CountedUpTo(Len(rlog), key, resetAt) : rlog[j].next}

\* C27: for each key and each window of the limiter at most `limit` requests
\* reach the downstream handler: the first `limit` requests of the window
\* do, every further one is answered 429 with a Retry-After header and does
\* not; X-RateLimit-Remaining is never negative.
C27_AtMostLimitPerWindow ==
    /\ \A key \in RateKeys : \A i \in DOMAIN rlog :
          Cardinality(PassedIn(key, rlog[i].window)) <= Limit
    /\ \A i \in DOMAIN rlog :
          /\ rlog[i].remaining >= 0
          /\ rlog[i].remaining = AtLeastZero(Limit - RankOf(i))
          /\ IF RankOf(i) > Limit
             THEN /\ ~rlog[i].next /\ rlog[i].status = 429
                  /\ rlog[i].retryAfter # NoHeader /\ rlog[i].retryAfter >= 0
             ELSE /\ rlog[i].next /\ rlog[i].status # 429
                  /\ rlog[i].retryAfter = NoHeader

\* a key was refused in a window in which it had been passed `limit` times,
\* and passed again in its next window, while the other key was passed
C27_Witness ==
    \E i, j, k \in DOMAIN rlog :
        /\ i < j
        /\ rlog[i].key = rlog[j].key /\ rlog[i].window < rlog[j].window
        /\ rlog[i].status = 429 /\ RankOf(i) = Limit + 1
        /\ Cardinality(PassedIn(rlog[i].key, rlog[i].window)) = Limit
        /\ rlog[j].next
        /\ rlog[k].key # rlog[i].key /\ rlog[k].next

\* the requests of a key passed to the downstream handler in the interval of
\* length WindowMs that ends at time t
PassedWithin(key, t) ==
    {j \in DOMAIN rlog : /\ rlog[j].key = key /\ rlog[j].next
                         /\ rlog[j].at > t - WindowMs /\ rlog[j].at <= t}

\* C28 as stated: the window slides: in every interval of length windowMs,
\* wherever it starts, at most `limit` requests of a key reach the
\* downstream handler.
C28_SlidingWindow ==
    \A key \in RateKeys : \A t \in 0..MaxNowMs :
        Cardinality(PassedWithin(key, t)) <= Limit

----------------------------------------------------------------------------
(* SpecSol: the two contracts of contracts/X402PaymentReceiver.sol called  *)
(* by any account. A deployment uses X402PaymentReceiver or                *)
(* X402EscrowReceiver; receiver or esc holds the storage of the deployed   *)
(* contract (NotDeployed for the other), ledger the balances and           *)
(* allowances of the chain (a chain record as above, with paidOut: the     *)
(* number of pay-outs made for each escrowed invoice), lastCall the last   *)
(* transaction: its function, sender and arguments, the owner and the      *)
(* invoice status it met, and whether it reverted.                         *)

EscrowContract == "0xesc"
Deployer == "0xowner"
Buyer == "0xa"
Other == "0xother"
Senders == {Deployer, Buyer, Other}
Invoices == {"i1", "i2"}
Amounts == {0, 100}
EscrowTokens == {ZeroAddress, "0xusdt"}
NewOwners == {ZeroAddress, Other}
NewTreasuries == {ZeroAddress, "0xt2"}
\* the payment receiver may also be given itself as treasury
ReceiverTreasuries == NewTreasuries \cup {PaymentContract}
\* and so may the escrow contract, whose receive() keeps what it is sent
EscrowTreasuries == NewTreasuries \cup {EscrowContract}

\* a reverted and a mined call on contract storage c and chain l
Revert(why, c, l) == [ok |-> FALSE, reason |-> why, c |-> c, ledger |-> l]
Mined(c, l) == [ok |-> TRUE, reason |-> "", c |-> c, ledger |-> l]

Debit(chain, token, who, amount) ==
    [chain EXCEPT !.balance[<<token, Lower(who)>>] = @ - amount]

\* IERC20.transfer of the token, called by the contract `self`
transfer(chain, token, self, to, amount) ==
    IF BalanceOf(chain, token, self) < amount
    THEN [ok |-> FALSE, reason |-> "ERC20: transfer amount exceeds balance", chain |-> chain]
    ELSE [ok |-> TRUE, reason |-> "",
          chain |-> Credit(Debit(chain, token, self, amount), token, to, amount)]

\* to.call{value: amount}("") made by the contract `self`; accepts: the
\* recipient takes the CFX
sendValue(chain, self, to, amount, accepts) ==
    IF ~accepts \/ BalanceOf(chain, ZeroAddress, self) < amount
    THEN [ok |-> FALSE, chain |-> chain]
    ELSE [ok |-> TRUE,
          chain |-> Credit(Debit(chain, ZeroAddress, self, amount), ZeroAddress, to, amount)]

\* modifier onlyOwner
onlyOwner(c, sender) == sender = c.owner

setTreasury_Unguarded(c, l, sender, newTreasury) ==
    IF newTreasury = ZeroAddress THEN Revert("Invalid treasury", c, l)
    ELSE Mined([c EXCEPT !.treasury = newTreasury], l)

\* setTreasury, the same in both contracts
setTreasury(c, l, sender, newTreasury) ==
    IF ~onlyOwner(c, sender) THEN Revert("Not owner", c, l)
    ELSE IF newTreasury = ZeroAddress THEN Revert("Invalid treasury", c, l)
    ELSE Mined([c EXCEPT !.treasury = newTreasury], l)

\* transferOwnership, the same in both contracts
transferOwnership(c, l, sender, newOwner) ==
    IF ~onlyOwner(c, sender) THEN Revert("Not owner", c, l)
    ELSE IF newOwner = ZeroAddress THEN Revert("Invalid owner", c, l)
    ELSE Mined([c EXCEPT !.owner = newOwner], l)

\* X402PaymentReceiver.payWithTokenFrom on the contract's own owner and treasury
receiverPayWithTokenFrom(c, l, sender, token, from, amount) ==
    LET moved == transferFrom(l, token, PaymentContract, from, c.treasury, amount)
    IN  IF ~onlyOwner(c, sender) THEN Revert("Not owner", c, l)
        ELSE IF amount = 0 THEN Revert("Zero amount", c, l)
        ELSE IF token = ZeroAddress THEN Revert("Use payNative for CFX", c, l)
        ELSE IF from = ZeroAddress THEN Revert("Invalid payer", c, l)
        ELSE IF AllowanceOf(l, token, from, PaymentContract) < amount
        THEN Revert("Insufficient allowance", c, l)
        ELSE IF ~moved.ok THEN Revert(moved.reason, c, l)
        ELSE Mined(c, moved.chain)

\* X402PaymentReceiver.payWithAuthorization: the token is called with the
\* contract's treasury as recipient
payWithAuthorization(c, l, sender, token, auth, signature, now) ==
    LET moved == transferWithAuthorization(l, token, [auth EXCEPT !.to = c.treasury],
                                           signature, now)
    IN  IF ~onlyOwner(c, sender) THEN Revert("Not owner", c, l)
        ELSE IF auth.value = 0 THEN Revert("Zero amount", c, l)
        ELSE IF ~moved.ok THEN Revert(moved.reason, c, l)
        ELSE Mined(c, moved.chain)

\* msg.value arriving at the contract `self` before the function body runs
receiveValue(chain, sender, self, value) ==
    Credit(Debit(chain, ZeroAddress, sender, value), ZeroAddress, self, value)

\* treasury.call{value: msg.value}("") of the payment receiver: a treasury
\* that is the contract itself runs receive() again, which forwards again,
\* until the innermost call runs out of gas and every forward fails
forwardToTreasury(c, l, value, accepts) ==
    sendValue(l, PaymentContract, c.treasury, value,
              accepts /\ c.treasury # PaymentContract)

payNative_KeepsValue(c, l, sender, value, accepts) ==
    IF value = 0 THEN Revert("Zero payment", c, l)
    ELSE Mined(c, Credit(Debit(l, ZeroAddress, sender, value), ZeroAddress,
                         PaymentContract, value))

\* X402PaymentReceiver.payNative, msg.value = value
payNative(c, l, sender, value, accepts) ==
    LET sent == forwardToTreasury(c, receiveValue(l, sender, PaymentContract, value),
                                  value, accepts)
    IN  IF value = 0 THEN Revert("Zero payment", c, l)
        ELSE IF ~sent.ok THEN Revert("CFX transfer failed", c, l)
        ELSE Mined(c, sent.chain)

\* X402PaymentReceiver.receive: a plain CFX transfer to the contract
receiverReceive(c, l, sender, value, accepts) ==
    LET sent == forwardToTreasury(c, receiveValue(l, sender, PaymentContract, value),
                                  value, accepts)
    IN  IF ~sent.ok THEN Revert("CFX forward failed", c, l)
        ELSE Mined(c, sent.chain)

\* X402EscrowReceiver.receive: a plain CFX transfer to the contract is kept
escrowReceive(c, l, sender, value) ==
    Mined(c, receiveValue(l, sender, EscrowContract, value))

\* X402PaymentReceiver.rescueTokens
rescueTokens(c, l, sender, token, amount, accepts) ==
    LET sentValue == sendValue(l, PaymentContract, c.owner, amount, accepts)
        sentToken == transfer(l, token, PaymentContract, c.owner, amount)
    IN  IF ~onlyOwner(c, sender) THEN Revert("Not owner", c, l)
        ELSE IF token = ZeroAddress
        THEN IF sentValue.ok THEN Mined(c, sentValue.chain)
             ELSE Revert("CFX rescue failed", c, l)
        ELSE IF sentToken.ok THEN Mined(c, sentToken.chain)
             ELSE Revert(sentToken.reason, c, l)

\* escrows[invoiceId] of an invoice never held
NoEscrow == [payer |-> ZeroAddress, token |-> ZeroAddress, amount |-> 0, status |-> "None"]
EscrowPayment(payer, token, amount) ==
    [payer |-> payer, token |-> token, amount |-> amount, status |-> "Held"]

\* X402EscrowReceiver.holdNative, msg.value = value
holdNative(c, l, sender, invoiceId, value) ==
    IF value = 0 THEN Revert("Zero payment", c, l)
    ELSE IF c.escrows[invoiceId].status # "None" THEN Revert("Invoice exists", c, l)
    ELSE Mined([c EXCEPT !.escrows[invoiceId] = EscrowPayment(sender, ZeroAddress, value)],
               Credit(Debit(l, ZeroAddress, sender, value), ZeroAddress, EscrowContract, value))

\* X402EscrowReceiver.holdToken
holdToken(c, l, sender, token, amount, invoiceId) ==
    LET moved == transferFrom(l, token, EscrowContract, sender, EscrowContract, amount)
    IN  IF amount = 0 THEN Revert("Zero amount", c, l)
        ELSE IF token = ZeroAddress THEN Revert("Use holdNative for CFX", c, l)
        ELSE IF c.escrows[invoiceId].status # "None" THEN Revert("Invoice exists", c, l)
        ELSE IF ~moved.ok THEN Revert(moved.reason, c, l)
        ELSE Mined([c EXCEPT !.escrows[invoiceId] = EscrowPayment(sender, token, amount)],
                   moved.chain)

\* the pay-out of releasePayment and refundPayment to the account `to`
payOut(c, l, invoiceId, to, accepts) ==
    LET escrow == c.escrows[invoiceId]
        paid == IF escrow.token = ZeroAddress
                THEN sendValue(l, EscrowContract, to, escrow.amount, accepts)
                ELSE [ok |-> transfer(l, escrow.token, EscrowContract, to, escrow.amount).ok,
                      chain |-> transfer(l, escrow.token, EscrowContract, to,
                                         escrow.amount).chain]
    IN  [ok |-> paid.ok,
         chain |-> [paid.chain EXCEPT !.paidOut[invoiceId] = @ + 1]]

releasePayment_StatusNotChecked(c, l, sender, invoiceId, accepts) ==
    LET paid == payOut(c, l, invoiceId, c.treasury, accepts)
    IN  IF ~onlyOwner(c, sender) THEN Revert("Not owner", c, l)
        ELSE IF c.escrows[invoiceId].status = "None" THEN Revert("Not in escrow", c, l)
        ELSE IF ~paid.ok THEN Revert("transfer failed", c, l)
        ELSE Mined([c EXCEPT !.escrows[invoiceId].status = "Released"], paid.chain)

\* X402EscrowReceiver.releasePayment
releasePayment(c, l, sender, invoiceId, accepts) ==
    LET paid == payOut(c, l, invoiceId, c.treasury, accepts)
    IN  IF ~onlyOwner(c, sender) THEN Revert("Not owner", c, l)
        ELSE IF c.escrows[invoiceId].status # "Held" THEN Revert("Not in escrow", c, l)
        ELSE IF ~paid.ok
        THEN Revert(IF c.escrows[invoiceId].token = ZeroAddress
                    THEN "CFX transfer failed" ELSE "Token transfer failed", c, l)
        ELSE Mined([c EXCEPT !.escrows[invoiceId].status = "Released"], paid.chain)

refundPayment_StatusKept(c, l, sender, invoiceId, accepts) ==
    LET paid == payOut(c, l, invoiceId, c.escrows[invoiceId].payer, accepts)
    IN  IF ~onlyOwner(c, sender) THEN Revert("Not owner", c, l)
        ELSE IF c.escrows[invoiceId].status # "Held" THEN Revert("Not in escrow", c, l)
        ELSE IF ~paid.ok THEN Revert("transfer failed", c, l)
        ELSE Mined(c, paid.chain)

\* X402EscrowReceiver.refundPayment
refundPayment(c, l, sender, invoiceId, accepts) ==
    LET paid == payOut(c, l, invoiceId, c.escrows[invoiceId].payer, accepts)
    IN  IF ~onlyOwner(c, sender) THEN Revert("Not owner", c, l)
        ELSE IF c.escrows[invoiceId].status # "Held" THEN Revert("Not in escrow", c, l)
        ELSE IF ~paid.ok
        THEN Revert(IF c.escrows[invoiceId].token = ZeroAddress
                    THEN "CFX refund failed" ELSE "Token refund failed", c, l)
        ELSE Mined([c EXCEPT !.escrows[invoiceId].status = "Refunded"], paid.chain)

NoCall ==
    [contract |-> "", fn |-> "", sender |-> "", owner |-> "", invoice |-> "",
     before |-> "", argsOk |-> FALSE, ok |-> FALSE, reason |-> ""]

NotDeployed == [owner |-> "", treasury |-> ""]

\* a transaction to the escrow contract is mined or reverts
EscrowCall(fn, sender, invoiceId, argsOk, ran) ==
    /\ esc # NotDeployed
    /\ esc' = ran.c
    /\ ledger' = ran.ledger
    /\ lastCall' = [contract |-> EscrowContract, fn |-> fn, sender |-> sender,
                    owner |-> esc.owner, invoice |-> invoiceId,
                    before |-> IF invoiceId \in Invoices
                               THEN esc.escrows[invoiceId].status ELSE "",
                    argsOk |-> argsOk,
                    ok |-> ran.ok, reason |-> ran.reason]
    /\ UNCHANGED <<receiver, verifyVars, chainVars, mwVars, facVars, rateVars, appVars>>

\* a transaction to the payment receiver is mined or reverts
ReceiverCall(fn, sender, argsOk, ran) ==
    /\ receiver # NotDeployed
    /\ receiver' = ran.c
    /\ ledger' = ran.ledger
    /\ lastCall' = [contract |-> PaymentContract, fn |-> fn, sender |-> sender,
                    owner |-> receiver.owner, invoice |-> "", before |-> "",
                    argsOk |-> argsOk,
                    ok |-> ran.ok, reason |-> ran.reason]
    /\ UNCHANGED <<esc, verifyVars, chainVars, mwVars, facVars, rateVars, appVars>>

HoldNative ==
    \E sender \in Senders, invoiceId \in Invoices, value \in Amounts :
        /\ BalanceOf(ledger, ZeroAddress, sender) >= value
        /\ EscrowCall("holdNative", sender, invoiceId, value > 0,
                      holdNative(esc, ledger, sender, invoiceId, value))

HoldToken ==
    \E sender \in Senders, token \in EscrowTokens, amount \in Amounts, invoiceId \in Invoices :
        EscrowCall("holdToken", sender, invoiceId, amount > 0 /\ token # ZeroAddress,
                   holdToken(esc, ledger, sender, token, amount, invoiceId))

ReleasePayment ==
    \E sender \in Senders, invoiceId \in Invoices, accepts \in BOOLEAN :
        EscrowCall("releasePayment", sender, invoiceId, TRUE,
                   releasePayment(esc, ledger, sender, invoiceId, accepts))

RefundPayment ==
    \E sender \in Senders, invoiceId \in Invoices, accepts \in BOOLEAN :
        EscrowCall("refundPayment", sender, invoiceId, TRUE,
                   refundPayment(esc, ledger, sender, invoiceId, accepts))

EscrowSetTreasury ==
    \E sender \in Senders, newTreasury \in EscrowTreasuries :
        EscrowCall("setTreasury", sender, "", TRUE,
                   setTreasury(esc, ledger, sender, newTreasury))

EscrowTransferOwnership ==
    \E sender \in Senders, newOwner \in NewOwners :
        EscrowCall("transferOwnership", sender, "", TRUE,
                   transferOwnership(esc, ledger, sender, newOwner))

PayWithTokenFrom ==
    \E sender \in Senders, amount \in Amounts :
        ReceiverCall("payWithTokenFrom", sender, TRUE,
                     receiverPayWithTokenFrom(receiver, ledger, sender, "0xusdt",
                                              Buyer, amount))

PayWithAuthorization ==
    \E sender \in Senders :
        ReceiverCall("payWithAuthorization", sender, TRUE,
                     payWithAuthorization(receiver, ledger, sender, "0xusdt0",
                         BuyerAuthorization,
                         Sign(Buyer, TokenDomain(ledger, "0xusdt0"), BuyerAuthorization),
                         clock))

ReceiverSetTreasury ==
    \E sender \in Senders, newTreasury \in ReceiverTreasuries :
        ReceiverCall("setTreasury", sender, TRUE,
                     setTreasury(receiver, ledger, sender, newTreasury))

ReceiverTransferOwnership ==
    \E sender \in Senders, newOwner \in NewOwners :
        ReceiverCall("transferOwnership", sender, TRUE,
                     transferOwnership(receiver, ledger, sender, newOwner))

RescueTokens ==
    \E sender \in Senders, token \in EscrowTokens, accepts \in BOOLEAN :
        ReceiverCall("rescueTokens", sender, TRUE,
                     rescueTokens(receiver, ledger, sender, token, 100, accepts))

PayNative ==
    \E sender \in Senders, value \in Amounts, accepts \in BOOLEAN :
        /\ BalanceOf(ledger, ZeroAddress, sender) >= value
        /\ ReceiverCall("payNative", sender, value > 0,
                        payNative(receiver, ledger, sender, value, accepts))

\* a plain CFX transfer to the payment receiver
ReceiverReceive ==
    \E sender \in Senders, value \in Amounts, accepts \in BOOLEAN :
        /\ BalanceOf(ledger, ZeroAddress, sender) >= value
        /\ ReceiverCall("receive", sender, TRUE,
                        receiverReceive(receiver, ledger, sender, value, accepts))

\* a plain CFX transfer to the escrow contract
EscrowReceive ==
    \E sender \in Senders, value \in Amounts :
        /\ BalanceOf(ledger, ZeroAddress, sender) >= value
        /\ EscrowCall("receive", sender, "", TRUE,
                      escrowReceive(esc, ledger, sender, value))

\* the chain after both contracts were deployed by Deployer: the buyer and
\* Other hold CFX and tokens, the buyer approved both contracts, and tokens
\* and CFX are stuck in the payment receiver
InitLedger ==
    [chainId |-> MainnetChainId,
     receipt |-> <<>>, tx |-> <<>>,
     allowance |-> (<<"0xusdt", Buyer, PaymentContract>> :> 100)
                   @@ (<<"0xusdt", Buyer, EscrowContract>> :> 100)
                   @@ (<<"0xusdt", Other, EscrowContract>> :> 0),
     balance |-> [x \in {ZeroAddress, "0xusdt", "0xusdt0"}
                        \X {Buyer, Other, Deployer, Treasury, "0xt2",
                            PaymentContract, EscrowContract} |->
                    CASE x[2] = Buyer -> 100
                      [] x[2] = Other /\ x[1] = ZeroAddress -> 100
                      [] x[2] = PaymentContract /\ x[1] # "0xusdt0" -> 100
                      [] OTHER -> 0],
     used |-> {}, transfers |-> 0,
     paidOut |-> [i \in Invoices |-> 0]]

InitSol ==
    /\ VerifyIdle /\ MwIdle /\ FacIdle /\ RateIdle /\ AppIdle
    /\ world = <<>>
    /\ clock = ValidBefore - 1
    /\ \/ /\ receiver = [owner |-> Deployer, treasury |-> Treasury]
          /\ esc = NotDeployed
       \/ /\ receiver = NotDeployed
          /\ esc = [owner |-> Deployer, treasury |-> Treasury,
                    escrows |-> [i \in Invoices |-> NoEscrow]]
    /\ ledger = InitLedger
    /\ lastCall = NoCall

NextSol ==
    \/ HoldNative
    \/ HoldToken
    \/ ReleasePayment
    \/ RefundPayment
    \/ EscrowSetTreasury
    \/ EscrowTransferOwnership
    \/ PayWithTokenFrom
    \/ PayWithAuthorization
    \/ ReceiverSetTreasury
    \/ ReceiverTransferOwnership
    \/ RescueTokens
    \/ PayNative
    \/ ReceiverReceive
    \/ EscrowReceive

SpecSol == InitSol /\ [][NextSol]_vars

----------------------------------------------------------------------------
(* Properties of the contracts (SpecSol) *)

Holds == {"holdNative", "holdToken"}
PayOuts == {"releasePayment", "refundPayment"}

\* the escrowed amounts of a token that are still held
HeldAmounts(token) ==
    LET held == {i \in Invoices : esc.escrows[i].status = "Held"
                                  /\ esc.escrows[i].token = token}
        amountOf(i) == esc.escrows[i].amount
        sum[S \in SUBSET held] ==
            IF S = {} THEN 0
            ELSE LET i == CHOOSE x \in S : TRUE IN amountOf(i) + sum[S \ {i}]
    IN  sum[held]

\* the step changes the status of invoice i as the function called allows
Lifecycle(i) ==
    LET a == esc.escrows[i].status
        b == esc'.escrows[i].status
        by(fns) == lastCall'.fn \in fns /\ lastCall'.invoice = i /\ lastCall'.ok
    IN  IF a = b THEN ledger'.paidOut[i] = ledger.paidOut[i]
        ELSE \/ /\ a = "None" /\ b = "Held" /\ by(Holds)
                /\ ledger'.paidOut[i] = ledger.paidOut[i]
             \/ /\ a = "Held" /\ b = "Released" /\ by({"releasePayment"})
                /\ ledger'.paidOut[i] = ledger.paidOut[i] + 1
             \/ /\ a = "Held" /\ b = "Refunded" /\ by({"refundPayment"})
                /\ ledger'.paidOut[i] = ledger.paidOut[i] + 1

\* C29: in X402EscrowReceiver the status of an invoice id changes only
\* None -> Held (holdNative, holdToken), Held -> Released (releasePayment)
\* or Held -> Refunded (refundPayment); a hold with a positive amount (and,
\* for holdToken, a token address) of an invoice id whose status is not None
\* reverts with "Invoice exists"; a release or refund by the owner of an
\* invoice whose status is not Held reverts with "Not in escrow"; Released
\* and Refunded are never left, and the funds of an invoice are paid out at
\* most once.
C29_EscrowLifecycle ==
    /\ [](esc # NotDeployed =>
            /\ \A i \in Invoices :
                  /\ ledger.paidOut[i] <= 1
                  /\ ledger.paidOut[i] = 1 <=>
                        esc.escrows[i].status \in {"Released", "Refunded"}
            /\ (lastCall.fn \in Holds /\ lastCall.argsOk /\ lastCall.before # "None")
                  => (~lastCall.ok /\ lastCall.reason = "Invoice exists")
            /\ (lastCall.fn \in PayOuts /\ lastCall.sender = lastCall.owner
                  /\ lastCall.before # "Held")
                  => (~lastCall.ok /\ lastCall.reason = "Not in escrow"))
    /\ [][esc # NotDeployed => \A i \in Invoices : Lifecycle(i)]_vars

\* one invoice was released, the other refunded, and a second release of the
\* released one by the owner reverted
C29_Witness ==
    /\ esc # NotDeployed
    /\ esc.escrows["i1"].status = "Released"
    /\ esc.escrows["i2"].status = "Refunded"
    /\ lastCall.fn = "releasePayment" /\ lastCall.invoice = "i1"
    /\ lastCall.sender = lastCall.owner /\ lastCall.before = "Released"
    /\ ~lastCall.ok /\ lastCall.reason = "Not in escrow"

OwnerOnly ==
    (PaymentContract :> {"payWithTokenFrom", "payWithAuthorization", "setTreasury",
                         "transferOwnership", "rescueTokens"})
    @@ (EscrowContract :> {"releasePayment", "refundPayment", "setTreasury",
                           "transferOwnership"})

\* the call was made to an owner-only function by an account that was not
\* the owner of the contract when it was made
NonOwnerCall(call) ==
    /\ call.contract \in DOMAIN OwnerOnly
    /\ call.fn \in OwnerOnly[call.contract]
    /\ call.sender # call.owner

\* C30: in both contracts every call of an owner-only function by an account
\* other than the current owner reverts with "Not owner" and leaves owner,
\* treasury, escrow records and balances unchanged.
C30_OwnerOnlyRevertsUnchanged ==
    [][NonOwnerCall(lastCall') =>
          /\ ~lastCall'.ok /\ lastCall'.reason = "Not owner"
          /\ receiver' = receiver /\ esc' = esc /\ ledger' = ledger]_vars

\* the deployer, after it transferred the ownership of the escrow contract,
\* was refused the refund of a held invoice
C30_Witness ==
    /\ NonOwnerCall(lastCall)
    /\ lastCall.contract = EscrowContract /\ lastCall.fn = "refundPayment"
    /\ lastCall.sender = Deployer /\ lastCall.owner = Other
    /\ lastCall.before = "Held" /\ esc.escrows[lastCall.invoice].status = "Held"
    /\ ~lastCall.ok /\ lastCall.reason = "Not owner"

\* the step is a payNative call or a plain CFX transfer to the payment receiver
NativePayment ==
    /\ lastCall'.contract = PaymentContract
    /\ lastCall'.fn \in {"payNative", "receive"}

\* C31: in X402PaymentReceiver a mined payNative call (value > 0) and a mined
\* plain CFX transfer move exactly the received value from the sender to the
\* treasury of that moment, a reverted one moves nothing, and in both cases
\* the CFX balance of the contract and its storage are unchanged; payNative
\* with value 0 reverts with "Zero payment".
C31_NativeForwardedToTreasury ==
    [][NativePayment =>
          /\ receiver' = receiver
          /\ BalanceOf(ledger', ZeroAddress, PaymentContract)
                = BalanceOf(ledger, ZeroAddress, PaymentContract)
          /\ lastCall'.ok =>
                \E value \in Amounts :
                    /\ lastCall'.fn = "payNative" => value > 0
                    /\ ledger' = Credit(Debit(ledger, ZeroAddress, lastCall'.sender, value),
                                        ZeroAddress, receiver.treasury, value)
          /\ ~lastCall'.ok => ledger' = ledger
          /\ (lastCall'.fn = "payNative" /\ ~lastCall'.argsOk) =>
                (~lastCall'.ok /\ lastCall'.reason = "Zero payment")]_vars

\* a payment was forwarded to the first treasury, the treasury was changed,
\* and a payNative call was forwarded to the new one
C31_Witness ==
    /\ lastCall.contract = PaymentContract /\ lastCall.fn = "payNative" /\ lastCall.ok
    /\ receiver.treasury = "0xt2"
    /\ BalanceOf(ledger, ZeroAddress, "0xt2") = 100
    /\ BalanceOf(ledger, ZeroAddress, Treasury) = 100
    /\ BalanceOf(ledger, ZeroAddress, PaymentContract) = 100

\* the invoices held in native CFX
HeldNative ==
    {i \in Invoices : esc.escrows[i].status = "Held" /\ esc.escrows[i].token = ZeroAddress}

\* C40: in X402EscrowReceiver the CFX balance of the contract is at least
\* the sum of the amounts of the native escrows in status Held, and each of
\* them can be released and can be refunded in full by the owner to a
\* recipient that accepts CFX.
C40_HeldNativeCovered ==
    esc # NotDeployed =>
        /\ BalanceOf(ledger, ZeroAddress, EscrowContract) >= HeldAmounts(ZeroAddress)
        /\ \A i \in HeldNative :
              /\ releasePayment(esc, ledger, esc.owner, i, TRUE).ok
              /\ refundPayment(esc, ledger, esc.owner, i, TRUE).ok

\* one native escrow is held, the other was refunded and its payer then sent
\* the CFX to the contract in a plain transfer
C40_Witness ==
    /\ esc # NotDeployed
    /\ HeldNative = {"i1"}
    /\ esc.escrows["i2"].status = "Refunded" /\ esc.escrows["i2"].token = ZeroAddress
    /\ lastCall.fn = "receive" /\ lastCall.ok
    /\ BalanceOf(ledger, ZeroAddress, EscrowContract) = 200
    /\ HeldAmounts(ZeroAddress) = 100

----------------------------------------------------------------------------
(* SpecInvoices: the invoice service (services/invoices.ts) on the table   *)
(* x402_invoices. Each function is one SQL statement, which the database   *)
(* runs atomically or which fails (the error is caught and logged).        *)

InvoiceIds == {"inv1", "inv2"}
ExpiresInSeconds == {0, 2}
Payers == {"", "0xa"}
MaxDbNow == 4

NoPayer == "null"
InvoiceRow(expiresAt) == [status |-> "pending", expiresAt |-> expiresAt, payer |-> NoPayer]

\* a statement that ran (rowCount rows written) and one that threw
Ran(table, rowCount) == [ok |-> TRUE, table |-> table, rowCount |-> rowCount]
Threw(table) == [ok |-> FALSE, table |-> table, rowCount |-> 0]

createInvoice_Upsert(table, now, invoiceId, expiresInSeconds, dbOk) ==
    IF ~dbOk THEN Threw(table)
    ELSE Ran((invoiceId :> InvoiceRow(now + expiresInSeconds)) @@ table, 1)

\* INSERT ... VALUES (..., 'pending', NOW() + $6 seconds) ON CONFLICT DO NOTHING
createInvoice(table, now, invoiceId, expiresInSeconds, dbOk) ==
    IF ~dbOk THEN Threw(table)
    ELSE IF invoiceId \in DOMAIN table THEN Ran(table, 0)
    ELSE Ran((invoiceId :> InvoiceRow(now + expiresInSeconds)) @@ table, 1)

\* UPDATE ... SET status = 'paid', payer = COALESCE($2, payer)
\* WHERE invoice_id = $1 AND status = 'pending', with $2 = payerAddress || null
markInvoicePaid(table, invoiceId, payerAddress, dbOk) ==
    IF ~dbOk THEN Threw(table)
    ELSE IF invoiceId \notin DOMAIN table \/ table[invoiceId].status # "pending"
    THEN Ran(table, 0)
    ELSE Ran([table EXCEPT ![invoiceId].status = "paid",
                           ![invoiceId].payer = IF payerAddress = "" THEN @ ELSE payerAddress],
             1)

\* UPDATE ... SET status = 'expired' WHERE status = 'pending' AND expires_at < NOW()
expireInvoices(table, now, dbOk) ==
    LET due == {i \in DOMAIN table : table[i].status = "pending" /\ table[i].expiresAt < now}
    IN  IF ~dbOk THEN Threw(table)
        ELSE Ran([i \in DOMAIN table |->
                    IF i \in due THEN [table[i] EXCEPT !.status = "expired"] ELSE table[i]],
                 Cardinality(due))

NoStatement == [op |-> "", id |-> "", ok |-> FALSE, rowCount |-> 0]

Statement(op, id, ran) ==
    /\ invoices' = ran.table
    /\ dbLast' = [op |-> op, id |-> id, ok |-> ran.ok, rowCount |-> ran.rowCount]
    /\ UNCHANGED <<dbNow, routeVars, verifyVars, chainVars, mwVars, facVars,
                   rateVars, solVars>>

CreateInvoice ==
    \E invoiceId \in InvoiceIds, expiresInSeconds \in ExpiresInSeconds, dbOk \in BOOLEAN :
        Statement("createInvoice", invoiceId,
                  createInvoice(invoices, dbNow, invoiceId, expiresInSeconds, dbOk))

MarkInvoicePaid ==
    \E invoiceId \in InvoiceIds, payerAddress \in Payers, dbOk \in BOOLEAN :
        Statement("markInvoicePaid", invoiceId,
                  markInvoicePaid(invoices, invoiceId, payerAddress, dbOk))

ExpireInvoices ==
    \E dbOk \in BOOLEAN :
        Statement("expireInvoices", "", expireInvoices(invoices, dbNow, dbOk))

DbTick ==
    /\ dbNow < MaxDbNow
    /\ dbNow' = dbNow + 1
    /\ UNCHANGED <<invoices, dbLast, routeVars, verifyVars, chainVars, mwVars, facVars,
                   rateVars, solVars>>

InitInvoices ==
    /\ VerifyIdle /\ ChainIdle /\ MwIdle /\ FacIdle /\ RateIdle /\ SolIdle /\ RouteIdle
    /\ invoices = <<>>
    /\ dbNow = 0
    /\ dbLast = NoStatement

NextInvoices ==
    \/ CreateInvoice
    \/ MarkInvoicePaid
    \/ ExpireInvoices
    \/ DbTick

SpecInvoices == InitInvoices /\ [][NextInvoices]_vars

\* the step leaves the row of invoice i as it is, or changes its status as
\* the statement that ran allows
InvoiceStep(i) ==
    LET by(op) == dbLast'.op = op /\ dbLast'.ok
    IN  IF i \notin DOMAIN invoices
        THEN i \in DOMAIN invoices' =>
                /\ by("createInvoice") /\ dbLast'.id = i
                /\ invoices'[i].status = "pending"
        ELSE /\ i \in DOMAIN invoices'
             /\ invoices'[i].expiresAt = invoices[i].expiresAt
             /\ \/ invoices'[i] = invoices[i]
                \/ /\ invoices[i].status = "pending" /\ invoices'[i].status = "paid"
                   /\ by("markInvoicePaid") /\ dbLast'.id = i
                \/ /\ invoices[i].status = "pending" /\ invoices'[i].status = "expired"
                   /\ by("expireInvoices") /\ invoices[i].expiresAt < dbNow
                   /\ invoices'[i].payer = invoices[i].payer
             /\ (dbLast'.op = "createInvoice" /\ dbLast'.id = i) =>
                   invoices'[i] = invoices[i]

\* C32: in the invoice service the status of an invoice changes only from
\* pending to paid (markInvoicePaid of that id) or from pending to expired
\* (expireInvoices, and only when expires_at lies before NOW()); paid and
\* expired rows are never changed, rows are never removed, a new row is
\* pending, and createInvoice of an id that exists leaves its row unchanged.
C32_InvoiceLifecycle ==
    [][\A i \in InvoiceIds : InvoiceStep(i)]_vars

\* one invoice is paid, the other expired, and createInvoice of the paid one
\* ran without writing a row
C32_Witness ==
    /\ DOMAIN invoices = InvoiceIds
    /\ invoices["inv1"].status = "paid" /\ invoices["inv1"].payer = "0xa"
    /\ invoices["inv2"].status = "expired"
    /\ dbLast = [op |-> "createInvoice", id |-> "inv1", ok |-> TRUE, rowCount |-> 0]

----------------------------------------------------------------------------
(* SpecRoute: the handlers of the gated routes GET /ai (routes/ai.ts) and  *)
(* GET /data/premium (routes/data.ts). A handler runs when x402() has      *)
(* attached a successful settlement to the context and called next(); its  *)
(* awaits (logPayment, the fetch of the AI backend) interleave with those  *)
(* of the other requests.                                                  *)

RouteRequests == {"q1", "q2"}
GatedEndpoints == {"/ai", "/data/premium"}
MaxQuestion == 500

\* the query parameter q: absent, blank, a question, a question of 501 characters
Questions ==
    {[present |-> FALSE, blank |-> FALSE, length |-> 0],
     [present |-> TRUE, blank |-> TRUE, length |-> 3],
     [present |-> TRUE, blank |-> FALSE, length |-> 12],
     [present |-> TRUE, blank |-> FALSE, length |-> MaxQuestion + 1]}

\* c.req.query('q')?.trim(): the length of the trimmed question, 0 when absent
Trimmed(q) == IF ~q.present \/ q.blank THEN 0 ELSE q.length

\* what x402() attached for request r: c.get('x402')
SettlementOf(r) == [success |-> TRUE, transaction |-> "0xtx-" \o r, payer |-> "0xa"]

NoSettlement == [success |-> FALSE, transaction |-> "", payer |-> ""]
NoResponse == [status |-> 0, body |-> ""]

NewRouteRequest(claudeApiKey) ==
    [pc |-> "attached", endpoint |-> "", settlement |-> NoSettlement, claudeApiKey |-> claudeApiKey,
     logCalled |-> FALSE, response |-> NoResponse]

RouteRespond(q, status, body) ==
    [q EXCEPT !.pc = "done", !.response = [status |-> status, body |-> body]]

\* ai.get('/') up to its first await
aiHandler(q, question) ==
    IF Trimmed(question) = 0 THEN RouteRespond(q, 422, "Query parameter \"q\" is required")
    ELSE IF Trimmed(question) > MaxQuestion
    THEN RouteRespond(q, 422, "Question too long (max 500 characters)")
    ELSE [q EXCEPT !.pc = "logPayment"]

\* data.get('/premium') up to its first await
premiumHandler(q) == [q EXCEPT !.pc = "logPayment"]

\* logPayment: the row it inserts
PaymentRow(settlement, endpoint) ==
    [payer |-> settlement.payer, tx_hash |-> settlement.transaction, endpoint |-> endpoint]

\* next(): the handler of the route starts with the settlement attached
RouteEnter(r) ==
    \E endpoint \in GatedEndpoints, question \in Questions :
        LET q == [rreq[r] EXCEPT !.endpoint = endpoint, !.settlement = SettlementOf(r)]
        IN  /\ rreq[r].pc = "attached"
            /\ rreq' = [rreq EXCEPT ![r] = IF endpoint = "/ai" THEN aiHandler(q, question)
                                           ELSE premiumHandler(q)]
            /\ UNCHANGED <<payments, invoiceVars, verifyVars, chainVars, mwVars, facVars,
                           rateVars, solVars>>

\* await logPayment(...) returns: the row was inserted, or the insert threw
\* and the error was logged
RouteLogPayment(r) ==
    \E dbOk \in BOOLEAN :
        LET q == [rreq[r] EXCEPT !.logCalled = TRUE]
        IN  /\ rreq[r].pc = "logPayment"
            /\ payments' = IF dbOk
                            THEN Append(payments, PaymentRow(q.settlement, q.endpoint))
                            ELSE payments
            /\ rreq' = [rreq EXCEPT ![r] =
                    IF q.endpoint = "/data/premium" THEN RouteRespond(q, 200, "premium")
                    ELSE IF ~q.claudeApiKey THEN RouteRespond(q, 200, "fallback")
                    ELSE [q EXCEPT !.pc = "fetch"]]
            /\ UNCHANGED <<invoiceVars, verifyVars, chainVars, mwVars, facVars,
                           rateVars, solVars>>

\* the fetch of the AI backend returns an answer, an error status, or throws
RouteFetchReturn(r) ==
    \E outcome \in {"answer", "status", "throws"} :
        /\ rreq[r].pc = "fetch"
        /\ rreq' = [rreq EXCEPT ![r] =
                RouteRespond(@, 200, IF outcome = "answer" THEN "answer" ELSE "fallback")]
        /\ UNCHANGED <<payments, invoiceVars, verifyVars, chainVars, mwVars, facVars,
                       rateVars, solVars>>

InitRoute ==
    /\ VerifyIdle /\ ChainIdle /\ MwIdle /\ FacIdle /\ RateIdle /\ SolIdle /\ InvoiceIdle
    /\ payments = <<>>
    /\ \E claudeApiKey \in BOOLEAN :
          rreq = [r \in RouteRequests |-> NewRouteRequest(claudeApiKey)]

NextRoute ==
    \E r \in RouteRequests :
        \/ RouteEnter(r)
        \/ RouteLogPayment(r)
        \/ RouteFetchReturn(r)

SpecRoute == InitRoute /\ [][NextRoute]_vars

\* C33 as stated: every request to /ai or /data/premium that reached the
\* handler with a settlement attached has had logPayment called for it when
\* its response is sent.
C33_SettledRequestLogged ==
    \A r \in RouteRequests :
        rreq[r].pc = "done" => rreq[r].logCalled

----------------------------------------------------------------------------
(* Further properties of one verify call (SpecVerify) *)

\* the five gates of the native scheme, in the order of the design, each
\* with the condition under which it fails on the input of the call and the
\* reason it reports
NativeGates ==
    LET p == vin.body.payload
        receipt == ReceiptOf(vin.chain, p.payload.txHash)
        tx == TxOf(vin.chain, p.payload.txHash)
        required == IF Truthy(p.payload.amount) THEN p.payload.amount.n
                    ELSE vin.body.token.pricePerQuery
    IN  <<[fails |-> p.x402Version # 2, reason |-> "Unsupported x402 version"],
          [fails |-> ~receipt.found, reason |-> "Transaction not found"],
          [fails |-> receipt.status # 1, reason |-> "Transaction failed"],
          [fails |-> tx.value < required, reason |-> "Insufficient CFX amount"],
          [fails |-> p.payload.from # "" /\ Lower(tx.from) # Lower(p.payload.from),
           reason |-> "Sender mismatch"]>>

FailingGates == {i \in DOMAIN NativeGates : NativeGates[i].fails}
FirstFailing == CHOOSE i \in FailingGates : \A j \in FailingGates : i <= j

\* every gate of the call can be evaluated: the proof names a transaction,
\* its claimed amount (if any) is a number, and the chain reads neither
\* throw nor miss the transaction of a successful receipt
GatesEvaluable ==
    LET p == vin.body.payload IN
    /\ p.hasPayload /\ p.payload.txHash # ""
    /\ p.payload.amount.k # "bad"
    /\ vin.chain.failAt = 0
    /\ ReceiptOf(vin.chain, p.payload.txHash).found => TxOf(vin.chain, p.payload.txHash).found

\* C34: verifyNative reports the first failing gate in the order version,
\* missing receipt, receipt status, transaction value, sender: a wrong
\* version is reported whatever else is wrong; a reported gate reason means
\* that this gate fails and every earlier gate passes; and when all gates
\* can be evaluated the result is valid exactly when none fails and
\* otherwise carries the reason of the earliest failing gate.
C34_NativeFirstFailingGate ==
    (vin.method = "native" /\ vout # NoResult) =>
        /\ NativeGates[1].fails => vout = Invalid(NativeGates[1].reason, <<>>)
        /\ \A i \in DOMAIN NativeGates :
              (~vout.valid /\ vout.reason = NativeGates[i].reason) =>
                  /\ NativeGates[i].fails
                  /\ \A j \in 1..(i - 1) : ~NativeGates[j].fails
        /\ GatesEvaluable =>
              IF FailingGates = {} THEN vout.valid
              ELSE ~vout.valid /\ vout.reason = NativeGates[FirstFailing].reason

\* the receipt status, the value and the sender are wrong at once, and the
\* status is reported
C34_Witness ==
    /\ vin.method = "native" /\ vout # NoResult
    /\ GatesEvaluable
    /\ FailingGates = {3, 4, 5}
    /\ vout = Invalid("Transaction failed", <<"getTransactionReceipt">>)

\* C36 as stated: verifyNative returns valid:true only for a transaction
\* whose recipient is the seller's payment contract or treasury.
C36_NativeRecipientChecked ==
    (vin.method = "native" /\ vout.valid) =>
        Lower(TxOf(vin.chain, vin.body.payload.payload.txHash).to)
            \in {Lower(vin.body.paymentContract), Lower(vin.body.treasury)}

----------------------------------------------------------------------------
(* Further properties of the middleware (Spec) *)

\* the request carries a proof and is paid by EIP-3009
Eip3009Request(r) ==
    /\ mreq[r].pc # "new" /\ Decodable(mreq[r].header) /\ TokenResolved(r)
    /\ TokenOfRequest(mreq[r]).paymentMethod = "eip3009"

\* the authorization of the request's proof names the treasury as recipient
PaysTreasury(r) ==
    Lower(ProofTable[mreq[r].header].payload.authorization.to) = Lower(Treasury)

\* C35: a request paid by EIP-3009 whose authorization names a recipient
\* other than the configured treasury is never verified as valid, so it is
\* never settled or served, and the EIP-3009 token is never credited to an
\* account other than the treasury.
C35_Eip3009PaysTreasuryOnly ==
    /\ \A r \in Requests :
          (Eip3009Request(r) /\ ~PaysTreasury(r)) =>
              /\ ~mreq[r].verifyValid /\ mreq[r].settleCalls = 0 /\ ~mreq[r].next
    /\ \A cid \in DOMAIN world : \A key \in DOMAIN world[cid].balance :
          key[1] = "0xusdt0" => key[2] \in {"0xa", Lower(Treasury)}

\* the proof that pays another account was refused for its destination, and
\* the proof that pays the treasury was settled
C35_Witness ==
    /\ Eip3009Request("r1") /\ mreq["r1"].header = "p3x"
    /\ mreq["r1"].pc = "done" /\ mreq["r1"].status = 402
    /\ mreq["r1"].message = "Wrong payment destination"
    /\ Eip3009Request("r2") /\ mreq["r2"].header = "p3" /\ mreq["r2"].next
    /\ BalanceOf(world[MainnetChainId], "0xusdt0", Treasury) = 100

\* the request carries a proof and is paid by approve + relayed transferFrom
Erc20Request(r) ==
    /\ mreq[r].pc # "new" /\ Decodable(mreq[r].header) /\ TokenResolved(r)
    /\ TokenOfRequest(mreq[r]).paymentMethod = "erc20"

\* the proof of the request holds something only the holder of the key of
\* its `from` address can produce: a signature of that address
ControlShown(r) ==
    LET inner == ProofTable[mreq[r].header].payload
    IN  inner.signature.ok /\ Lower(inner.signature.signer) = Lower(inner.from)

\* C37 as stated: an ERC-20 settlement succeeds, and the request is served,
\* only when the proof shows that its submitter controls the address that
\* is debited.
C37_Erc20DebitNeedsControl ==
    \A r \in Requests :
        (Erc20Request(r) /\ mreq[r].settleSuccess) => ControlShown(r)

\* C38 as stated: when the middleware answers a request with 402 "Payment
\* failed", the settle handler of that request has moved no funds of the
\* buyer and will move none.
C38_FailedMeansNotCollected ==
    \A r \in Requests :
        (mreq[r].pc = "done" /\ mreq[r].status = 402) => ~mreq[r].moved

----------------------------------------------------------------------------
(* SpecInvoiceBytes: the conversion of the proof's invoice id to the       *)
(* bytes32 argument of payWithTokenFrom in settleErc20, applied to two     *)
(* invoice ids. A string is the sequence of its characters, a byte string  *)
(* the sequence of its byte values.                                        *)

InvoiceIdLength == 32
MaxInvoiceChars == 31
Bytes32Length == 32

\* the UTF-8 code of the characters used (all ASCII)
CharCode == [a |-> 97, f |-> 102, x |-> 120, c0 |-> 48, c2 |-> 50, c4 |-> 52]

\* an invoice id field of a proof: absent, or a string
NoInvoiceId == [present |-> FALSE, chars |-> <<>>]
InvoiceIdString(chars) == [present |-> TRUE, chars |-> chars]

\* the invoice ids of send402 (crypto.randomUUID() without its dashes: 32
\* hexadecimal characters) that differ at most in their first, 31st and
\* 32nd character
VaryAt == {1, InvoiceIdLength - 1, InvoiceIdLength}
GeneratedIds ==
    {InvoiceIdString([i \in 1..InvoiceIdLength |-> IF i \in D THEN "f" ELSE "a"]) :
        D \in SUBSET VaryAt}

X402String == <<"x", "c4", "c0", "c2">>
InvoiceIdFields == GeneratedIds \cup {NoInvoiceId, InvoiceIdString(<<>>),
                                       InvoiceIdString(X402String)}

\* String.prototype.substring(0, n)
substring(chars, n) == SubSeq(chars, 1, IF Len(chars) < n THEN Len(chars) ELSE n)

\* ethers.toUtf8Bytes on ASCII strings
toUtf8Bytes(chars) == [i \in 1..Len(chars) |-> CharCode[chars[i]]]

\* ethers.zeroPadValue(bytes, length): zero bytes in front, up to length
zeroPadValue(bytes, length) ==
    [i \in 1..length |-> IF i <= length - Len(bytes) THEN 0
                         ELSE bytes[i - (length - Len(bytes))]]

\* settleErc20: zeroPadValue(toUtf8Bytes(invoiceId?.substring(0, 31) || 'x402'), 32)
invoiceBytes(invoiceId) ==
    LET cut == IF invoiceId.present THEN substring(invoiceId.chars, MaxInvoiceChars)
               ELSE <<>>
    IN  zeroPadValue(toUtf8Bytes(IF cut = <<>> THEN X402String ELSE cut), Bytes32Length)

ConvertInvoiceIds ==
    /\ vout = NoResult
    /\ vout' = [a |-> invoiceBytes(vin.a), b |-> invoiceBytes(vin.b)]
    /\ UNCHANGED <<vin, chainVars, mwVars, facVars, rateVars, solVars, appVars>>

InitInvoiceBytes ==
    /\ \E a \in InvoiceIdFields, b \in InvoiceIdFields : vin = [a |-> a, b |-> b]
    /\ vout = NoResult
    /\ ChainIdle /\ MwIdle /\ FacIdle /\ RateIdle /\ SolIdle /\ AppIdle

NextInvoiceBytes == ConvertInvoiceIds

SpecInvoiceBytes == InitInvoiceBytes /\ [][NextInvoiceBytes]_vars

\* C39 as stated: two different generated invoice ids never map to the same
\* bytes32 value, and no generated invoice id maps to the encoding of
\* "x402", the value of an absent one.
C39_InvoiceBytesInjective ==
    vout # NoResult =>
        /\ (vin.a \in GeneratedIds /\ vin.b \in GeneratedIds /\ vin.a # vin.b)
              => vout.a # vout.b
        /\ vin.a \in GeneratedIds => vout.a # invoiceBytes(NoInvoiceId)

============================================================================
